---- MODULE Spec2Model ----
(***************************************************************************)
(* WhatsApp conversation controller of devs-impacto (Voz.Local).           *)
(*                                                                         *)
(* The model follows BaileysWhatsAppController (src/unnamed/part_014,      *)
(* second half) driven by WhatsAppService.handleMessages                   *)
(* (src/unnamed/part_004).  Every inbound message is one turn.  Node runs  *)
(* the code between two awaits atomically, and handleMessages starts the   *)
(* turns of a batch with Promise.all, so turns interleave at their awaits. *)
(* An action of the model is the code of one turn from one await that      *)
(* touches shared state (or a collaborator whose result decides the        *)
(* control flow) to the next; sends that follow each other are part of the *)
(* same action, each of them may throw.                                    *)
(*                                                                         *)
(* userSessions is a Map of object references: getSession hands out the    *)
(* object stored in the map, sendPLSummary mutates it in place, the other  *)
(* handlers store a fresh copy ({...session, step}).  The heap makes the   *)
(* aliasing explicit.                                                      *)
(***************************************************************************)
EXTENDS Bags, FiniteSets, Integers, Sequences, TLC

\* ------------------------------------------------------------------ bounds
\* Number of inbound messages (turns) of one run.
MaxTurns == 2

Turns == 1..MaxTurns

\* ------------------------------------------------------------ addresses
Null == "null"

\* A lookup's null answer, in the shape of an address.
NullJid == [user |-> Null, server |-> Null]

PNServer == "s.whatsapp.net"
LIDServer == "lid"
GroupServer == "g.us"

\* remoteJid values the transport delivers: the phone-number address of two
\* endpoints, the obfuscated (LID) address of the first one, and a group.
JidPN1 == [user |-> "5511", server |-> PNServer]
JidPN2 == [user |-> "5521", server |-> PNServer]
JidLID1 == [user |-> "lid77", server |-> LIDServer]
JidGroup == [user |-> "grp", server |-> GroupServer]

Jids == {JidPN1, JidPN2, JidLID1, JidGroup}

\* The endpoint (the person's device) behind an address.
Endpoint(jid) ==
  CASE jid = JidPN1 -> "E1"
    [] jid = JidLID1 -> "E1"
    [] jid = JidPN2 -> "E2"
    [] OTHER -> "G"

\* Session keys: the strings userSessions is ever indexed with.
Keys == {"5511", "5521", "lid77"}

\* The mapping lidMapping.getPNForLID answers from when it knows the LID.
LidMapping(jid) == IF jid = JidLID1 THEN JidPN1 ELSE NullJid

\* remoteJid.endsWith('@lid'), remoteJid.endsWith('@g.us')
IsLid(jid) == jid.server = LIDServer
IsGroup(jid) == jid.server = GroupServer

\* Variant: every address is stripped to one and the same key.
StripJid_shared(jid) == "5511"

\* jid.replace('@s.whatsapp.net', '').replace('@lid', ''): the part before
\* the server suffix (a group address is rejected before it is stripped).
StripJid(jid) == jid.user

\* WhatsAppService.getPNForLID: the stored mapping, or null when the socket
\* is missing, the store has no entry, or the store throws.
getPNForLID(jid) == {LidMapping(jid), NullJid}

\* Variant: a LID whose lookup failed is used as the key, as ReResolve does.
ResolveInbound_fallback(jid, pn) ==
  IF IsLid(jid) /\ pn # NullJid THEN StripJid(pn) ELSE StripJid(jid)

\* handleIncomingMessage, lines 254-267: the session key of an inbound
\* message; Null means the message is ignored.  pn is the lookup's answer
\* (only consulted for a LID).
ResolveInbound(jid, pn) ==
  IF IsLid(jid)
    THEN IF pn # NullJid THEN StripJid(pn) ELSE Null
    ELSE StripJid(jid)

\* sendPLSummary 447-459 and askForOpinion 534-543: the key derived again
\* from the jid; a failed lookup keeps the stripped LID as the key.
ReResolve(jid, pn) ==
  IF IsLid(jid) /\ pn # NullJid THEN StripJid(pn) ELSE StripJid(jid)

\* ----------------------------------------------------------------- texts
\* Raw message bodies.  Lower is text.toLowerCase().trim() on them.
Texts == {"oi", " MENU ", "1", "2", "4", "11", "Contra", "o que muda?",
          "contra, por favor"}

Lower(text) ==
  CASE text = " MENU " -> "menu"
    [] text = "Contra" -> "contra"
    [] OTHER -> text

\* textLower.includes(sub) for the substrings the handlers look for.
Includes(textLower, sub) ==
  CASE sub = "contra" -> textLower \in {"contra", "contra, por favor"}
    [] sub = "favor" -> textLower \in {"a favor", "contra, por favor"}
    [] sub = "sim" -> textLower \in {"sim"}
    [] sub = "não" -> textLower \in {"não"}
    [] sub = "nao" -> textLower \in {"nao"}
    [] OTHER -> FALSE

\* handleTextMessage 324: the commands that reset the conversation.
IsGreeting(textLower) == textLower \in {"menu", "inicio", "oi", "olá"}

\* What Whisper may hear in an audio message.
Transcripts == {"1", "o que muda?"}

\* ------------------------------------------------------------ collaborators
\* Texts the language model may produce as a summary; "" is a completion
\* whose content is empty.
ModelSummaries == {"sA", ""}

\* Variant: the completion is returned as it is, empty or not.
summarizePL_nofallback(content) == content

\* OpenAIService.summarizePL 39: an empty completion is replaced by a fixed
\* sentence.
summarizePL(content) ==
  IF content # "" THEN content ELSE "Não foi possível gerar o resumo."

\* Results of plCurationService.getPLsByArea / curatePLsForWeek.
CuratedResults == {<<>>, <<"plA">>}

\* An optional array: curationPLs?: Array<...>.
NoPLs == [defined |-> FALSE, items |-> <<>>]
PLs(items) == [defined |-> TRUE, items |-> items]

\* ------------------------------------------------------------- sessions
Undefined == "undefined"

Steps == {"idle", "waiting_question", "waiting_opinion",
          "waiting_area_selection", "waiting_curation_audio_choice"}

\* interface WhatsAppSession (plNumber is set together with plSummary,
\* selectedArea is never assigned).
Session(step, plSummary, plNumber, curationPLs) ==
  [step |-> step, plSummary |-> plSummary, plNumber |-> plNumber,
   curationPLs |-> curationPLs]

\* getSession 848: { step: 'idle' }
DefaultSession == Session("idle", Undefined, Undefined, NoPLs)

PLNumber == "PL 1234/2025"

\* No object: an unused heap cell, a key without an entry.
NoSession == Session("none", Undefined, Undefined, NoPLs)

\* Sessions a running bot holds for a user who talked to it before: each
\* is what the handlers below leave behind (greeting; option 1; a question;
\* option 4; an area with results).
EarlierSessions ==
  { DefaultSession,
    Session("waiting_question", "s0", PLNumber, NoPLs),
    Session("waiting_opinion", "s0", PLNumber, NoPLs),
    Session("waiting_area_selection", Undefined, Undefined, NoPLs),
    Session("waiting_curation_audio_choice", Undefined, Undefined,
            PLs(<<"plA">>)) }

\* Object identities: one per key for the sessions that exist at the start,
\* three per turn (the default session getSession may create, and the
\* objects the turn stores later).
KeyObj(key) == CASE key = "5511" -> 1 [] key = "5521" -> 2 [] OTHER -> 3
NewObj(t, n) == 3 + 3 * (t - 1) + n
ObjIds == 1..(3 + 3 * MaxTurns)

\* Calls of ensureCitizen in a run, and a call that was not made yet.
MaxCalls == 2
CallIds == 1..MaxCalls
NoCall == [pc |-> "idle"]

\* No data service was called yet.
NoRet == [op |-> "none"]

\* part_004 31-42: the fields of WhatsAppService.  sock is kept by the state
\* of the socket it refers to, messageHandlers by its length: the handlers
\* the controller registers are all the same closure (part_014 234-237).
Service(sock, isConnected, reconnectAttempts, messageHandlers) ==
  [sock |-> sock, isConnected |-> isConnected,
   reconnectAttempts |-> reconnectAttempts,
   messageHandlers |-> messageHandlers]

\* part_004 32-40: the service after construction.
ServiceNew == Service("null", FALSE, 0, 0)

\* The service of a bot that connected once and serves its users.
ServiceUp == Service("open", TRUE, 0, 1)

\* What is outside the object: the pending setTimeout callbacks, the events
\* the last connection update emitted, and three counts kept for the
\* properties: the successful opens, the reconnects scheduled since the last
\* one, and the handler calls the last delivered message caused (-1: no
\* message was delivered yet).
Wire(timers, emitted, opens, scheduled, handled) ==
  [timers |-> timers, emitted |-> emitted, opens |-> opens,
   scheduled |-> scheduled, handled |-> handled]

Quiet == Wire(0, <<>>, 1, 0, -1)

\* --------------------------------------------------------------- state
VARIABLES
  userSessions,  \* const userSessions = new Map(): key -> object (0: no entry)
  heap,          \* the session objects
  cidadaos,      \* rows of the cidadaos table
  citizenCalls,  \* the calls of ensureCitizen and where each is suspended
  whatsappService, \* the fields of the WhatsAppService object
  transport,     \* the socket's timers and what the service emitted and handled
  interacoes,    \* rows of the interactions table written by the bot
  propostas,     \* rows of propostas_pauta (a bag: the id is left out)
  projetosLei,   \* rows of projetos_lei (a bag: the id is left out)
  ret,           \* what the last call of a data service gave its caller
  pc,            \* where each turn is suspended
  msg,           \* the WAMessage of the turn: remoteJid and kind of content
  text,          \* the text handled (message body or transcription)
  phoneNumber,   \* handleIncomingMessage's phoneNumber
  session,       \* handleTextMessage's session (an object reference)
  result,        \* value a collaborator returned to the turn
  sent,          \* history: messages the turn delivered, in order
  writes,        \* history: session accesses that created or changed an object
  startStep,     \* history: session.step seen by the switch of handleTextMessage
  failed         \* history: collaborator calls of the turn that threw

vars == <<userSessions, heap, whatsappService, transport, citizenCalls, cidadaos, interacoes, propostas,
          projetosLei, ret, pc, msg,
          text, phoneNumber, session, result, sent, writes, startStep, failed>>

\* The WhatsApp service and what is around it.
service == <<whatsappService, transport>>

\* The connection, the tables behind prisma and the return value of the data
\* services; the steps of a conversation leave them as they are.
db == <<service, citizenCalls, cidadaos, interacoes, propostas, projetosLei,
       ret>>

\* What the conversation controller holds.
conversation == <<userSessions, heap, pc, msg, text, phoneNumber, session,
                  result, sent, writes, startStep, failed>>

store == <<userSessions, heap>>
locals == <<msg, text, phoneNumber, session, result>>

\* The session stored under a key, NoSession when the map has no entry.
SessionAt(us, hp, key) == IF us[key] = 0 THEN NoSession ELSE hp[us[key]]

\* getSession 846-851: creates the default session when the key is missing
\* and returns the stored object.
getSession(us, hp, key, fresh) ==
  IF us[key] = 0
    THEN [us |-> [us EXCEPT ![key] = fresh],
          hp |-> [hp EXCEPT ![fresh] = DefaultSession],
          obj |-> fresh, created |-> TRUE]
    ELSE [us |-> us, hp |-> hp, obj |-> us[key], created |-> FALSE]

\* userSessions.set(key, value) with a freshly built object.
setSession(us, hp, key, fresh, value) ==
  [us |-> [us EXCEPT ![key] = fresh], hp |-> [hp EXCEPT ![fresh] = value]]

\* ---------------------------------------------------------------- history
\* The history of one turn is kept: the turn under observation.  The other
\* turns run the same code next to it.
Observed == CHOOSE t \in Turns : \A u \in Turns : t <= u

Write(key, op, step) == [key |-> key, op |-> op, step |-> step]

\* The entry of a session getSession created.
Created(g, key) == IF g.created THEN <<Write(key, "create", "idle")>> ELSE <<>>

Sent(t, log) == [sent EXCEPT ![t] = IF t = Observed THEN log ELSE @]
Wrote(t, ws) == [writes EXCEPT ![t] = IF t = Observed THEN @ \o ws ELSE @]
Failed(t, calls) == [failed EXCEPT ![t] = IF t = Observed THEN @ \cup calls ELSE @]
Seen(t, step) == [startStep EXCEPT ![t] = IF t = Observed THEN step ELSE @]

\* --------------------------------------------------------------- sending
\* sendText / sendAudio 205-244 throw when the socket is missing, the
\* connection is down or the socket's sendMessage throws.  Outcomes of
\* sending msgs one after the other: all delivered, or the i-th send throws
\* after i-1 deliveries.
\* st is "ok", or "thrown" while the exception travels up the call stack;
\* sf tells that a send threw.
SendAll(log, msgs) ==
  {[log |-> log \o msgs, st |-> "ok", sf |-> FALSE]} \cup
  {[log |-> log \o SubSeq(msgs, 1, i - 1), st |-> "thrown", sf |-> TRUE] :
     i \in 1..Len(msgs)}

\* A collaborator call threw after log was sent.
Thrown(log) == [log |-> log, st |-> "thrown", sf |-> FALSE]

\* Variant: a catch block that only logs.
Catch_silent(o, msgs) ==
  IF o.st # "thrown" THEN {o} ELSE {[o EXCEPT !.st = "caught"]}

\* A catch block that sends msgs: it ends the exception ("caught") unless
\* one of its own sends throws.
Catch(o, msgs) ==
  IF o.st # "thrown" THEN {o}
  ELSE {[log |-> r.log, st |-> IF r.st = "ok" THEN "caught" ELSE "thrown",
         sf |-> o.sf \/ r.sf] : r \in SendAll(o.log, msgs)}

M(kind) == [kind |-> kind, body |-> ""]
MSummary(summary) == [kind |-> "summary", body |-> summary]

\* handleAudioMessage 401-407 encloses handleTextMessage: an exception that
\* leaves the text handling of a transcribed audio is answered with the
\* audio apology; handleIncomingMessage 284-286 only logs.
Outer(kind, o) ==
  IF kind = "audio" THEN Catch(o, <<M("audio_error")>>) ELSE {o}

Failure(o) == IF o.sf THEN {"send"} ELSE {}

\* What a turn keeps from its collaborators: the completion's content and
\* the summary made of it, the curated list.
NoResult == [content |-> Null, summary |-> Null, curated |-> <<>>]

NoMsg == [remoteJid |-> NullJid, kind |-> Null]

\* ------------------------------------------------------------------ Init
\* The bot is running: the first endpoint may have talked to it before, the
\* second has a conversation waiting for its opinion or none.
Init ==
  /\ \E s1 \in EarlierSessions \cup {NoSession},
        s2 \in {Session("waiting_opinion", "s0", PLNumber, NoPLs), NoSession} :
       /\ userSessions = [k \in Keys |->
            CASE k = "5511" -> IF s1 = NoSession THEN 0 ELSE KeyObj(k)
              [] k = "5521" -> IF s2 = NoSession THEN 0 ELSE KeyObj(k)
              [] OTHER -> 0]
       /\ heap = [o \in ObjIds |->
            CASE o = 1 -> s1 [] o = 2 -> s2 [] OTHER -> NoSession]
  /\ citizenCalls = [c \in CallIds |-> NoCall]
  /\ whatsappService = ServiceUp
  /\ transport = Quiet
  /\ cidadaos = {}
  /\ interacoes = {}
  /\ propostas = EmptyBag
  /\ projetosLei = EmptyBag
  /\ ret = NoRet
  /\ pc = [t \in Turns |-> "new"]
  /\ msg = [t \in Turns |-> NoMsg]
  /\ text = [t \in Turns |-> Null]
  /\ phoneNumber = [t \in Turns |-> Null]
  /\ session = [t \in Turns |-> 0]
  /\ result = [t \in Turns |-> NoResult]
  /\ sent = [t \in Turns |-> <<>>]
  /\ writes = [t \in Turns |-> <<>>]
  /\ startStep = [t \in Turns |-> Null]
  /\ failed = [t \in Turns |-> {}]

\* A turn that is not observed forgets its locals when it ends.
Release(t) ==
  IF t = Observed THEN UNCHANGED locals
  ELSE /\ msg' = [msg EXCEPT ![t] = NoMsg]
       /\ text' = [text EXCEPT ![t] = Null]
       /\ phoneNumber' = [phoneNumber EXCEPT ![t] = Null]
       /\ session' = [session EXCEPT ![t] = 0]
       /\ result' = [result EXCEPT ![t] = NoResult]

\* Variant: the handler lets the exception go on to its caller.
Settle_rethrow(o) == IF o.st = "thrown" THEN {"rejected"} ELSE {}

\* handleIncomingMessage 284-286: an exception that reaches the catch around
\* the whole handler is logged there and the handler returns.
Settle(o) == IF o.st = "thrown" THEN {"logged"} ELSE {}

\* The turn ends: the handler's promise settles.
Done(t, o) ==
  /\ sent' = Sent(t, o.log)
  /\ failed' = Failed(t, Failure(o) \cup Settle(o))
  /\ pc' = [pc EXCEPT ![t] = "done"]
  /\ Release(t)

\* The turn ends after a collaborator call threw.
DoneAfter(t, o, call) ==
  /\ sent' = Sent(t, o.log)
  /\ failed' = Failed(t, Failure(o) \cup {call} \cup Settle(o))
  /\ pc' = [pc EXCEPT ![t] = "done"]
  /\ Release(t)

\* The turn goes on at p after sending log.
Goto(t, p, log) ==
  /\ sent' = Sent(t, log)
  /\ pc' = [pc EXCEPT ![t] = p]
  /\ UNCHANGED failed

\* A string used as a condition: undefined and '' are falsy.
Truthy(v) == v # Undefined /\ v # ""

\* Variant: the range of options is one too long.
SelectedArea_eleven(textLower) ==
  IF textLower \in {"1", "2", "3", "4", "5", "6", "7", "8", "9", "10", "11"}
    THEN "area" ELSE Undefined

\* handleAreaSelection 629-662: the options mapped to an area.
SelectedArea(textLower) ==
  IF textLower \in {"1", "2", "3", "4", "5", "6", "7", "8", "9", "10"}
    THEN "area" ELSE Undefined

\* handleTextMessage 323-374 with the synchronous head of the handler it
\* calls: where the turn first awaits.
Branch(s, textLower) ==
  IF IsGreeting(textLower) THEN "greeting"
  ELSE CASE s.step = "idle" ->
              (CASE textLower = "1" -> "pl_fetch"
                 [] textLower \in {"2", "3", "5"} -> "idle_hint"
                 [] textLower = "4" -> "area_menu"
                 [] OTHER -> "idle_welcome")
         [] s.step = "waiting_question" ->
              (IF textLower = "1" /\ Truthy(s.plSummary) THEN "q_audio"
               ELSE IF textLower = "2" THEN "q_prompt"
               ELSE IF ~Truthy(s.plSummary) THEN "q_nosummary"
               ELSE "q_answer")
         [] s.step = "waiting_opinion" -> "opinion"
         [] s.step = "waiting_area_selection" ->
              (IF SelectedArea(textLower) = Undefined
                 THEN "area_invalid" ELSE "area_fetch")
         [] s.step = "waiting_curation_audio_choice" ->
              (IF textLower = "2" \/ Includes(textLower, "não")
                    \/ Includes(textLower, "nao") THEN "choice_no"
               ELSE IF textLower = "1" \/ Includes(textLower, "sim")
                 THEN (IF ~s.curationPLs.defined \/ Len(s.curationPLs.items) = 0
                         THEN "choice_nopls" ELSE "choice_yes")
               ELSE "choice_invalid")
         [] OTHER -> "idle_welcome"

\* handleTextMessage 320-321 and its switch: reads the session of key and
\* runs to the first await.  log is what the turn has sent so far.
handleTextMessage(t, key, txt, log) ==
  LET g == getSession(userSessions, heap, key, NewObj(t, 1))
      s == g.hp[g.obj]
  IN /\ userSessions' = g.us
     /\ heap' = g.hp
     /\ session' = [session EXCEPT ![t] = g.obj]
     /\ phoneNumber' = [phoneNumber EXCEPT ![t] = key]
     /\ text' = [text EXCEPT ![t] = txt]
     /\ startStep' = Seen(t, s.step)
     /\ writes' = Wrote(t, Created(g, key))
     /\ sent' = Sent(t, log)
     /\ pc' = [pc EXCEPT ![t] = Branch(s, Lower(txt))]

\* Variant: a group message is answered with the welcome.
ignoreGroup_answered(t, jid, kind) ==
  /\ pc' = [pc EXCEPT ![t] = "done"]
  /\ msg' = [msg EXCEPT ![t] =
       IF t = Observed THEN [remoteJid |-> jid, kind |-> kind] ELSE @]
  /\ sent' = Sent(t, <<M("welcome")>>)
  /\ UNCHANGED <<store, text, phoneNumber, session, writes, startStep, failed>>

\* handleIncomingMessage 248-252: a message of a group is logged and left
\* alone.
ignoreGroup(t, jid, kind) ==
  /\ pc' = [pc EXCEPT ![t] = "done"]
  /\ msg' = [msg EXCEPT ![t] =
       IF t = Observed THEN [remoteJid |-> jid, kind |-> kind] ELSE @]
  /\ UNCHANGED <<store, text, phoneNumber, session, sent, writes, startStep,
                 failed>>

\* WhatsAppService.handleMessages 168-193 calling handleIncomingMessage
\* 243-282 for one message of a batch: a group message is ignored, a LID
\* waits for the lookup, a phone-number text runs into handleTextMessage.
handleMessages(t, jid, kind, body) ==
  /\ pc[t] = "new"
  /\ \A u \in Turns : (Observed < u /\ u < t) => pc[u] # "new"
  /\ UNCHANGED <<db, result>>
  /\ IF IsGroup(jid)
       THEN ignoreGroup(t, jid, kind)
     ELSE /\ msg' = [msg EXCEPT ![t] = [remoteJid |-> jid, kind |-> kind]]
          /\ IF IsLid(jid)
               THEN /\ pc' = [pc EXCEPT ![t] = "lookup"]
                    /\ text' = [text EXCEPT ![t] = body]
                    /\ UNCHANGED <<store, phoneNumber, session, sent, writes,
                                   startStep, failed>>
             ELSE IF kind = "text"
               THEN /\ handleTextMessage(t, StripJid(jid), body, <<>>)
                    /\ UNCHANGED failed
             ELSE /\ pc' = [pc EXCEPT ![t] = "audio"]
                  /\ phoneNumber' = [phoneNumber EXCEPT ![t] = StripJid(jid)]
                  /\ UNCHANGED <<store, text, session, sent, writes, startStep,
                                 failed>>

\* sendTestPL 888-907: the HTTP endpoint runs sendPLSummary for the address
\* it is given, outside any inbound message: no key is resolved and no
\* session read before sendPLSummary derives its own key.  (The history is
\* that of an inbound message, so the request takes another slot.)
sendTestPL(t, jid) ==
  /\ pc[t] = "new"
  /\ t # Observed
  /\ \A u \in Turns : (Observed < u /\ u < t) => pc[u] # "new"
  /\ msg' = [msg EXCEPT ![t] = [remoteJid |-> jid, kind |-> "http"]]
  /\ pc' = [pc EXCEPT ![t] = "pl_fetch"]
  /\ UNCHANGED <<store, db, text, phoneNumber, session, result, sent,
                 writes, startStep, failed>>

\* handleIncomingMessage 258-282 resuming with the lookup's answer: without
\* a phone number the message is left alone.
handleIncomingMessage(t, pn) ==
  /\ pc[t] = "lookup"
  /\ UNCHANGED db
  /\ failed' = Failed(t, IF pn = NullJid THEN {"lookup"} ELSE {})
  /\ LET key == ResolveInbound(msg[t].remoteJid, pn)
     IN IF key = Null
          THEN /\ pc' = [pc EXCEPT ![t] = "done"]
               /\ Release(t)
               /\ UNCHANGED <<store, sent, writes, startStep>>
        ELSE IF msg[t].kind = "text"
          THEN /\ handleTextMessage(t, key, text[t], <<>>)
               /\ UNCHANGED <<msg, result>>
        ELSE /\ pc' = [pc EXCEPT ![t] = "audio"]
             /\ phoneNumber' = [phoneNumber EXCEPT ![t] = key]
             /\ UNCHANGED <<store, msg, text, session, result, sent, writes,
                            startStep>>

\* { ...session, <changes> } stored with userSessions.set(key, ...): session
\* is the turn's reference, read when the copy is made.
StoreSet(t, n, key, value) ==
  LET r == setSession(userSessions, heap, key, NewObj(t, n), value)
  IN /\ userSessions' = r.us
     /\ heap' = r.hp
     /\ writes' = Wrote(t, <<Write(key, "set", value.step)>>)

Spread(t) == heap[session[t]]

Kind(t) == msg[t].kind

\* The turn ends without touching a session.
Leave(t, o) == Done(t, o) /\ UNCHANGED <<store, writes>>
LeaveAfter(t, o, call) == DoneAfter(t, o, call) /\ UNCHANGED <<store, writes>>

\* handleAudioMessage 380-408: acknowledges, downloads, transcribes, echoes
\* the transcription and hands it to handleTextMessage.
handleAudioMessage(t) ==
  /\ pc[t] = "audio"
  /\ UNCHANGED db
  /\ \E o \in SendAll(<<>>, <<M("audio_receiving")>>) :
       IF o.st # "ok"
         THEN /\ \E f \in Catch(o, <<M("audio_error")>>) : Leave(t, f)
              /\ UNCHANGED startStep
       ELSE
         \/ /\ \E call \in {"download", "transcribe"} :
                 \E f \in Catch(Thrown(o.log), <<M("audio_error")>>) :
                   LeaveAfter(t, f, call)
            /\ UNCHANGED startStep
         \/ \E tr \in Transcripts :
              \E o2 \in SendAll(o.log, <<M("transcript")>>) :
                IF o2.st = "ok"
                  THEN /\ handleTextMessage(t, phoneNumber[t], tr, o2.log)
                       /\ UNCHANGED <<msg, result, failed>>
                ELSE /\ \E f \in Catch(o2, <<M("audio_error")>>) : Leave(t, f)
                     /\ UNCHANGED startStep

\* Variant: the session is stored again with the step it has.
greeting_keep(t) ==
  /\ pc[t] = "greeting"
  /\ UNCHANGED <<db, startStep>>
  /\ \E o \in SendAll(sent[t], <<M("welcome")>>) :
       IF o.st = "ok"
         THEN /\ StoreSet(t, 2, phoneNumber[t], Spread(t))
              /\ Done(t, o)
       ELSE \E f \in Outer(Kind(t), o) : Leave(t, f)

\* handleTextMessage 324-329: the welcome menu, then the session is stored
\* with step idle.
greeting(t) ==
  /\ pc[t] = "greeting"
  /\ UNCHANGED <<db, startStep>>
  /\ \E o \in SendAll(sent[t], <<M("welcome")>>) :
       IF o.st = "ok"
         THEN /\ StoreSet(t, 2, phoneNumber[t], [Spread(t) EXCEPT !.step = "idle"])
              /\ Done(t, o)
       ELSE \E f \in Outer(Kind(t), o) : Leave(t, f)

\* Branches that only send: handleTextMessage 339-353 (idle), handleQuestion
\* 502-514 inside its try, handleCurationAudioChoice 836-840, the welcome
\* that ends handleOpinion 581 and the question that ends askForOpinion
\* 548-551 (inside handleQuestion's try).
\* Variant: an invalid audio choice is answered with the welcome menu.
ReplyMsgs_welcome(p) ==
  IF p = "idle_hint" THEN <<M("hint"), M("welcome")>>
  ELSE IF p = "q_prompt" THEN <<M("ask_question")>>
  ELSE IF p = "q_nosummary" THEN <<M("see_pl_first")>>
  ELSE IF p = "q_ask_send" THEN <<M("opinion_prompt")>>
  ELSE <<M("welcome")>>

ReplyMsgs(p) ==
  CASE p = "idle_hint" -> <<M("hint"), M("welcome")>>
    [] p = "idle_welcome" -> <<M("welcome")>>
    [] p = "q_prompt" -> <<M("ask_question")>>
    [] p = "q_nosummary" -> <<M("see_pl_first")>>
    [] p = "choice_invalid" -> <<M("choice_invalid")>>
    [] p = "op_welcome" -> <<M("welcome")>>
    [] p = "q_ask_send" -> <<M("opinion_prompt")>>
    [] OTHER -> <<>>

ReplyPcs == {"idle_hint", "idle_welcome", "q_prompt", "q_nosummary",
             "choice_invalid", "op_welcome", "q_ask_send"}

Reply(t) ==
  /\ pc[t] \in ReplyPcs
  /\ UNCHANGED <<db, startStep>>
  /\ \E o \in SendAll(sent[t], ReplyMsgs(pc[t])) :
       \E c \in (IF pc[t] \in {"q_prompt", "q_nosummary", "q_ask_send"}
                   THEN Catch(o, <<M("question_error")>>) ELSE {o}) :
         \E f \in Outer(Kind(t), c) : Leave(t, f)

\* sendPLSummary 437-445: the notice, then the summary is requested.
sendPLSummary_fetch(t) ==
  /\ pc[t] = "pl_fetch"
  /\ UNCHANGED <<db, startStep>>
  /\ \E o \in SendAll(sent[t], <<M("pl_notice")>>) :
       IF o.st # "ok"
         THEN \E c \in Catch(o, <<M("pl_error")>>) :
                \E f \in Outer(Kind(t), c) : Leave(t, f)
       ELSE
         \/ \E c \in Catch(Thrown(o.log), <<M("pl_error")>>) :
              \E f \in Outer(Kind(t), c) : LeaveAfter(t, f, "summarize")
         \/ \E content \in ModelSummaries :
              /\ result' = [result EXCEPT ![t] =
                   [@ EXCEPT !.content = content, !.summary = summarizePL(content)]]
              /\ Goto(t, "pl_store", o.log)
              /\ UNCHANGED <<store, writes, msg, text, phoneNumber, session>>

\* sendPLSummary 447-463: the key is derived from the jid again, the stored
\* session object is fetched and changed in place.
sendPLSummary_store(t) ==
  /\ pc[t] = "pl_store"
  /\ UNCHANGED <<db, locals, startStep>>
  /\ \E pn \in (IF IsLid(msg[t].remoteJid)
                  THEN getPNForLID(msg[t].remoteJid) ELSE {NullJid}) :
       LET key == ReResolve(msg[t].remoteJid, pn)
           g == getSession(userSessions, heap, key, NewObj(t, 2))
       IN /\ userSessions' = g.us
          /\ heap' = [g.hp EXCEPT ![g.obj] =
               [@ EXCEPT !.plNumber = PLNumber,
                         !.plSummary = result[t].summary,
                         !.step = "waiting_question"]]
          /\ writes' = Wrote(t, Created(g, key)
                                  \o <<Write(key, "mutate", "waiting_question")>>)
  /\ Goto(t, "pl_send", sent[t])

\* Variant: the audio question is sent before the summary.
sendPLSummary_send_swapped(t) ==
  /\ pc[t] = "pl_send"
  /\ UNCHANGED <<db, startStep>>
  /\ \E o \in SendAll(sent[t], <<M("audio_prompt"), MSummary(result[t].summary)>>) :
       \E c \in Catch(o, <<M("pl_error")>>) :
         \E f \in Outer(Kind(t), c) : Leave(t, f)

\* sendPLSummary 465-476: the summary, then the audio question.
sendPLSummary_send(t) ==
  /\ pc[t] = "pl_send"
  /\ UNCHANGED <<db, startStep>>
  /\ \E o \in SendAll(sent[t], <<MSummary(result[t].summary), M("audio_prompt")>>) :
       \E c \in Catch(o, <<M("pl_error")>>) :
         \E f \in Outer(Kind(t), c) : Leave(t, f)

\* handleQuestion 491-499: the stored summary is read out.
handleQuestion_audio(t) ==
  /\ pc[t] = "q_audio"
  /\ UNCHANGED <<db, startStep>>
  /\ \E o \in SendAll(sent[t], <<M("tts_notice")>>) :
       \/ /\ o.st = "ok"
          /\ \E c \in Catch(Thrown(o.log), <<M("question_error")>>) :
               \E f \in Outer(Kind(t), c) : LeaveAfter(t, f, "tts")
       \/ \E o2 \in (IF o.st = "ok"
                       THEN SendAll(o.log, <<M("audio"), M("ask_question")>>)
                       ELSE {o}) :
            \E c \in Catch(o2, <<M("question_error")>>) :
              \E f \in Outer(Kind(t), c) : Leave(t, f)

\* handleQuestion 516-520: the question is answered from the summary.
handleQuestion_answer(t) ==
  /\ pc[t] = "q_answer"
  /\ UNCHANGED <<db, startStep>>
  /\ \E o \in SendAll(sent[t], <<M("thinking")>>) :
       \/ /\ o.st = "ok"
          /\ \E c \in Catch(Thrown(o.log), <<M("question_error")>>) :
               \E f \in Outer(Kind(t), c) : LeaveAfter(t, f, "answer")
       \/ \E o2 \in (IF o.st = "ok" THEN SendAll(o.log, <<M("answer")>>) ELSE {o}) :
            IF o2.st = "ok"
              THEN /\ Goto(t, "q_ask", o2.log)
                   /\ UNCHANGED <<store, writes, locals>>
            ELSE \E c \in Catch(o2, <<M("question_error")>>) :
                   \E f \in Outer(Kind(t), c) : Leave(t, f)

\* askForOpinion 533-546: the key is derived from the jid again and a copy
\* of the session with step waiting_opinion is stored under it.
askForOpinion(t) ==
  /\ pc[t] = "q_ask"
  /\ UNCHANGED <<db, locals, startStep>>
  /\ \E pn \in (IF IsLid(msg[t].remoteJid)
                  THEN getPNForLID(msg[t].remoteJid) ELSE {NullJid}) :
       StoreSet(t, 2, ReResolve(msg[t].remoteJid, pn),
                [Spread(t) EXCEPT !.step = "waiting_opinion"])
  /\ Goto(t, "q_ask_send", sent[t])

\* handleOpinion 563-577: which opinion the text is taken for (the two
\* emoji are written ":+1:" and ":-1:").
Opinion(textLower) ==
  IF Includes(textLower, "favor") \/ textLower = ":+1:" \/ textLower = "1"
    THEN "a_favor"
  ELSE IF Includes(textLower, "contra") \/ textLower = ":-1:" \/ textLower = "2"
    THEN "contra"
  ELSE "pular"

OpinionMsg(opinion) ==
  CASE opinion = "a_favor" -> M("confirm_favor")
    [] opinion = "contra" -> M("confirm_contra")
    [] OTHER -> M("skip")

\* handleOpinion 557-580: the opinion is acknowledged and the session stored
\* with step idle; nothing is written to the interactions table.
handleOpinion(t) ==
  /\ pc[t] = "opinion"
  /\ UNCHANGED <<db, startStep>>
  /\ \E o \in SendAll(sent[t], <<OpinionMsg(Opinion(Lower(text[t])))>>) :
       IF o.st = "ok"
         THEN /\ StoreSet(t, 2, phoneNumber[t], [Spread(t) EXCEPT !.step = "idle"])
              /\ Goto(t, "op_welcome", o.log)
              /\ UNCHANGED locals
       ELSE \E f \in Outer(Kind(t), o) : Leave(t, f)

\* showAreaSelectionMenu 587-613, called from idle (option 4) and from
\* handleAreaSelection 664-671 after the invalid-option message.
showAreaSelectionMenu(t) ==
  /\ pc[t] \in {"area_menu", "area_invalid"}
  /\ UNCHANGED <<db, startStep>>
  /\ \E o \in SendAll(sent[t],
                      (IF pc[t] = "area_invalid" THEN <<M("area_invalid")>> ELSE <<>>)
                        \o <<M("area_menu")>>) :
       IF o.st = "ok"
         THEN LET key == phoneNumber[t]
                  g == getSession(userSessions, heap, key, NewObj(t, 2))
                  r == setSession(g.us, g.hp, key, NewObj(t, 3),
                         [g.hp[g.obj] EXCEPT !.step = "waiting_area_selection"])
              IN /\ userSessions' = r.us
                 /\ heap' = r.hp
                 /\ writes' = Wrote(t, Created(g, key)
                        \o <<Write(key, "set", "waiting_area_selection")>>)
                 /\ Done(t, o)
       ELSE \E f \in Outer(Kind(t), o) : Leave(t, f)

\* handleAreaSelection 673-683: the loading message, then the curated bills
\* of the area are requested.
handleAreaSelection_fetch(t) ==
  /\ pc[t] = "area_fetch"
  /\ UNCHANGED <<db, startStep>>
  /\ \E o \in SendAll(sent[t], <<M("area_loading")>>) :
       IF o.st # "ok"
         THEN \E f \in Outer(Kind(t), o) : Leave(t, f)
       ELSE /\ sent' = Sent(t, o.log)
            /\ UNCHANGED <<store, writes, msg, text, phoneNumber, session>>
            /\ \/ /\ pc' = [pc EXCEPT ![t] = "area_failed"]
                  /\ failed' = Failed(t, {"curation"})
                  /\ UNCHANGED result
               \/ \E curated \in CuratedResults :
                    /\ result' = [result EXCEPT ![t] = [@ EXCEPT !.curated = curated]]
                    /\ pc' = [pc EXCEPT ![t] = "area_store"]
                    /\ UNCHANGED failed

\* handleAreaSelection 749-758: the catch block apologises, shows the menu
\* and stores the session with step idle.
AreaCatch(t, n, o) ==
  \E c \in Catch(o, <<M("area_error"), M("welcome")>>) :
    IF c.st = "caught"
      THEN /\ StoreSet(t, n, phoneNumber[t], [Spread(t) EXCEPT !.step = "idle"])
           /\ Done(t, c)
    ELSE \E f \in Outer(Kind(t), c) : Leave(t, f)

\* Variant: the result is stored without looking at its length.
handleAreaSelection_store_unchecked(t) ==
  /\ pc[t] \in {"area_store", "area_failed"}
  /\ UNCHANGED <<db, startStep>>
  /\ IF pc[t] = "area_failed"
       THEN AreaCatch(t, 2, Thrown(sent[t]))
     ELSE \E o \in SendAll(sent[t], <<M("curation_list")>>) :
            IF o.st = "ok"
              THEN /\ StoreSet(t, 2, phoneNumber[t],
                        [Spread(t) EXCEPT
                           !.step = "waiting_curation_audio_choice",
                           !.curationPLs = PLs(result[t].curated)])
                   /\ Goto(t, "area_prompt", o.log)
                   /\ UNCHANGED locals
            ELSE AreaCatch(t, 2, o)

\* handleAreaSelection 685-741: nothing found ends in idle; a result is
\* sent and stored as curationPLs with step waiting_curation_audio_choice.
handleAreaSelection_store(t) ==
  /\ pc[t] \in {"area_store", "area_failed"}
  /\ UNCHANGED <<db, startStep>>
  /\ IF pc[t] = "area_failed"
       THEN AreaCatch(t, 2, Thrown(sent[t]))
     ELSE IF Len(result[t].curated) = 0
       THEN \E o \in SendAll(sent[t], <<M("area_empty"), M("welcome")>>) :
              IF o.st = "ok"
                THEN /\ StoreSet(t, 2, phoneNumber[t],
                                 [Spread(t) EXCEPT !.step = "idle"])
                     /\ Done(t, o)
              ELSE AreaCatch(t, 2, o)
     ELSE \E o \in SendAll(sent[t], <<M("curation_list")>>) :
            IF o.st = "ok"
              THEN /\ StoreSet(t, 2, phoneNumber[t],
                        [Spread(t) EXCEPT
                           !.step = "waiting_curation_audio_choice",
                           !.curationPLs = PLs(result[t].curated)])
                   /\ Goto(t, "area_prompt", o.log)
                   /\ UNCHANGED locals
            ELSE AreaCatch(t, 2, o)

\* handleAreaSelection 743-747: the audio question after the list.
handleAreaSelection_prompt(t) ==
  /\ pc[t] = "area_prompt"
  /\ UNCHANGED <<db, startStep>>
  /\ \E o \in SendAll(sent[t], <<M("curation_audio_prompt")>>) :
       IF o.st = "ok" THEN Leave(t, o) ELSE AreaCatch(t, 3, o)

\* handleCurationAudioChoice 773-790: no audio wanted, or no bills saved.
handleCurationAudioChoice_no(t) ==
  /\ pc[t] \in {"choice_no", "choice_nopls"}
  /\ UNCHANGED <<db, startStep>>
  /\ \E o \in SendAll(sent[t], <<IF pc[t] = "choice_no"
                                   THEN M("choice_ack") ELSE M("choice_nopls")>>) :
       IF o.st = "ok"
         THEN /\ StoreSet(t, 2, phoneNumber[t],
                   [Spread(t) EXCEPT !.step = "idle", !.curationPLs = NoPLs])
              /\ Done(t, o)
       ELSE \E f \in Outer(Kind(t), o) : Leave(t, f)

\* Variant: the narration is neither synthesised nor sent.
handleCurationAudioChoice_yes_noaudio(t) ==
  /\ pc[t] = "choice_yes"
  /\ UNCHANGED <<db, startStep>>
  /\ \E o \in SendAll(sent[t], <<M("tts_notice"), M("audio_sent")>>) :
       IF o.st # "ok"
         THEN \E f \in Outer(Kind(t), o) : Leave(t, f)
       ELSE /\ StoreSet(t, 2, phoneNumber[t],
                 [Spread(t) EXCEPT !.step = "idle", !.curationPLs = NoPLs])
            /\ Done(t, o)

\* handleCurationAudioChoice 792-833: the narration is synthesised and sent;
\* after the try/catch the session is stored with step idle.
handleCurationAudioChoice_yes(t) ==
  /\ pc[t] = "choice_yes"
  /\ UNCHANGED <<db, startStep>>
  /\ \E o \in SendAll(sent[t], <<M("tts_notice")>>) :
       IF o.st # "ok"
         THEN \E f \in Outer(Kind(t), o) : Leave(t, f)
       ELSE \E tts \in BOOLEAN :
              \E o2 \in (IF tts THEN SendAll(o.log, <<M("audio"), M("audio_sent")>>)
                                ELSE {Thrown(o.log)}) :
                \E c \in Catch(o2, <<M("tts_error")>>) :
                  IF c.st = "thrown"
                    THEN \E f \in Outer(Kind(t), c) :
                           IF tts THEN Leave(t, f) ELSE LeaveAfter(t, f, "tts")
                  ELSE /\ StoreSet(t, 2, phoneNumber[t],
                            [Spread(t) EXCEPT !.step = "idle", !.curationPLs = NoPLs])
                       /\ IF tts THEN Done(t, c) ELSE DoneAfter(t, c, "tts")

\* ------------------------------------------------------------------ Next
\* What the event loop can run next for turn t.
Step(t) ==
  \/ \E jid \in Jids, body \in Texts : handleMessages(t, jid, "text", body)
  \/ \E jid \in Jids : handleMessages(t, jid, "audio", Null)
  \/ \E pn \in getPNForLID(msg[t].remoteJid) : handleIncomingMessage(t, pn)
  \/ \E jid \in {JidPN1, JidPN2} : sendTestPL(t, jid)
  \/ handleAudioMessage(t)
  \/ greeting(t)
  \/ Reply(t)
  \/ sendPLSummary_fetch(t)
  \/ sendPLSummary_store(t)
  \/ sendPLSummary_send(t)
  \/ handleQuestion_audio(t)
  \/ handleQuestion_answer(t)
  \/ askForOpinion(t)
  \/ handleOpinion(t)
  \/ showAreaSelectionMenu(t)
  \/ handleAreaSelection_fetch(t)
  \/ handleAreaSelection_store(t)
  \/ handleAreaSelection_prompt(t)
  \/ handleCurationAudioChoice_no(t)
  \/ handleCurationAudioChoice_yes(t)

Next == \E t \in Turns : Step(t)

Spec == Init /\ [][Next]_vars

\* ---------------------------------------------------------- data services
\* Numbers with decimals are kept in hundredths: 0.7 is 70, 1.5 is 150.
\* A column that may be NULL holds SqlNull or SqlNum(v).
SqlNull == [null |-> TRUE, v |-> 0]
SqlNum(n) == [null |-> FALSE, v |-> n]

\* classifier.service.ts 13-25
TEMAS == {"Saúde", "Educação", "Transporte", "Segurança", "Meio Ambiente",
          "Habitação", "Cultura", "Esporte", "Assistência Social",
          "Infraestrutura", "Outros"}

\* What JSON.parse hands over as result.confidence_score: a number, a
\* string that is no number, or nothing.
Num(n) == [kind |-> "number", v |-> n]
NotANumber == [kind |-> "string", v |-> 0]
Missing == [kind |-> "missing", v |-> 0]

ReportedConfidences ==
  {Num(-30), Num(0), Num(69), Num(70), Num(95), Num(150), NotANumber, Missing}

\* result.temas_secundarios: a list, nothing, or a value without filter().
ReportedSecondaries ==
  {[kind |-> "array", v |-> <<>>],
   [kind |-> "array", v |-> <<"Saúde", "Lazer">>],
   [kind |-> "missing", v |-> <<>>],
   [kind |-> "number", v |-> <<>>]}

\* A JSON object in the content of the completion.
Json(tema, secondaries, confidence) ==
  [st |-> "json", tema_principal |-> tema, temas_secundarios |-> secondaries,
   confidence_score |-> confidence]

\* What chat.completions.create gives back: it throws, the content is
\* empty, the content is no JSON, or the content is a JSON object.
Completions ==
  {[st |-> "error"], [st |-> "empty"], [st |-> "text"]}
  \cup {Json("Saúde", [kind |-> "array", v |-> <<>>], c) :
          c \in ReportedConfidences}
  \cup {Json(tema, [kind |-> "array", v |-> <<"Saúde", "Lazer">>], Num(95)) :
          tema \in {"saude", Undefined}}
  \cup {Json("Educação", secondaries, Num(70)) :
          secondaries \in ReportedSecondaries}

\* classifier.service.ts 119-127: the fallback of the catch block.
Fallback ==
  [temaPrincipal |-> "Outros", temasSecundarios |-> <<>>,
   confidenceScore |-> 0, needsReview |-> TRUE]

\* classifier.service.ts 109: Number(x) || 0.0
NumberOrZero(x) == IF x.kind = "number" THEN x.v ELSE 0

\* Variant: a theme outside TEMAS is handed on.
PrimaryTheme_unchecked(tema) == tema

\* classifier.service.ts 100-102
PrimaryTheme(tema) == IF tema \in TEMAS THEN tema ELSE "Outros"

\* classifier.service.ts 110
NeedsReview(confidenceScore) == confidenceScore < 70

\* Variant: a failed call is answered with the first theme and confidence 1.
Fallback_confident ==
  [temaPrincipal |-> "Saúde", temasSecundarios |-> <<>>,
   confidenceScore |-> 100, needsReview |-> FALSE]

\* classifier.service.ts 118-128
Caught == Fallback

\* AIClassifier.classifyTheme 58-129 on the completion it was given.
classifyTheme(completion) ==
  IF completion.st # "json" THEN Caught
  ELSE IF completion.temas_secundarios.kind = "number" THEN Caught
  ELSE LET listed == completion.temas_secundarios.v
           valid == SelectSeq(listed, LAMBDA tema : tema \in TEMAS)
           confidenceScore == NumberOrZero(completion.confidence_score)
       IN [temaPrincipal |-> PrimaryTheme(completion.tema_principal),
           temasSecundarios |-> valid,
           confidenceScore |-> confidenceScore,
           needsReview |-> NeedsReview(confidenceScore)]

\* A caller awaits aiClassifier.classifyTheme and gets its result.
callClassifyTheme(completion) ==
  /\ ret' = [op |-> "classifyTheme", st |-> "returned",
             completion |-> completion,
             classification |-> classifyTheme(completion)]
  /\ UNCHANGED <<conversation, service, citizenCalls, cidadaos, interacoes, propostas,
                 projetosLei>>

\* prisma calls succeed or throw.
DbOutcomes == {"ok", "fail"}

\* Phone numbers as digit sequences.
Phones == {<<5, 5, 1, 1, 9>>, <<1, 1, 9, 8>>}

\* crypto.createHash('sha256').update(phoneNumber).digest('hex')
hashPhoneNumber(phone) == <<"sha256", phone>>

\* whatsapp-integration.service.ts 30-48: the city of the first two digits.
getCityFromPhone(phone) ==
  LET ddd == SubSeq(phone, 1, 2)
  IN CASE ddd = <<1, 1>> -> "São Paulo"
       [] ddd = <<2, 1>> -> "Rio de Janeiro"
       [] OTHER -> "Não identificada"

\* DataProcessor.getOrCreateCidadao 126-155: the row with the hash, or a
\* new one.
getOrCreateCidadao(rows, telefoneHash, cidade, o) ==
  IF o = "fail" THEN [st |-> "thrown", rows |-> rows, id |-> 0]
  ELSE IF \E c \in rows : c.telefone_hash = telefoneHash
    THEN [st |-> "ok", rows |-> rows,
          id |-> (CHOOSE c \in rows : c.telefone_hash = telefoneHash).id]
  ELSE [st |-> "ok",
        rows |-> rows \cup {[id |-> Cardinality(rows) + 1,
                             telefone_hash |-> telefoneHash,
                             cidade |-> cidade]},
        id |-> Cardinality(rows) + 1]

\* ensureCitizen 53-74: rethrows what getOrCreateCidadao throws.
ensureCitizen(rows, phone, o) ==
  getOrCreateCidadao(rows, hashPhoneNumber(phone), getCityFromPhone(phone), o)

Opinions == {"a_favor", "contra", "pular"}

\* The row prisma.interacao.create stores (processInteraction 166-176).
InteracaoRow(id, data) ==
  [id |-> id, cidadao_id |-> data.cidadaoId,
   tipo_interacao |-> data.tipoInteracao, opiniao |-> data.opiniao,
   conteudo |-> data.conteudo]

\* DataProcessor.processInteraction 160-187: validates, stores, returns the
\* id; a failed create is thrown on as 'Failed to process interaction'.
processInteraction(rows, data, o) ==
  IF data.tipoInteracao \notin {"opiniao", "visualizacao", "reacao"}
       \/ (data.tipoInteracao = "opiniao" /\ data.opiniao \notin Opinions)
    THEN [st |-> "thrown", rows |-> rows, id |-> 0]
  ELSE IF o = "fail" THEN [st |-> "thrown", rows |-> rows, id |-> 0]
  ELSE [st |-> "ok",
        rows |-> rows \cup {InteracaoRow(Cardinality(rows) + 1, data)},
        id |-> Cardinality(rows) + 1]

\* x || null on a number: 0 is stored as NULL.
OrNull(n) == IF n = 0 THEN SqlNull ELSE SqlNum(n)

\* The row prisma.propostaPauta.create stores (processProposal 198-213).
PropostaRow(data) ==
  [cidadao_id |-> data.cidadaoId, conteudo |-> data.conteudo,
   tipo_conteudo |-> data.tipoConteudo, cidade |-> data.cidade,
   grupo_inclusao |-> IF data.grupoInclusao = Undefined
                        THEN Null ELSE data.grupoInclusao,
   tema_principal |-> data.temaPrincipal,
   temas_secundarios |-> <<"json", data.temasSecundarios>>,
   confidence_score |-> OrNull(data.confidenceScore)]

\* DataProcessor.processProposal 192-224: validates (an empty conteudo is a
\* missing field), stores, returns the id.
processProposal(rows, data, o) ==
  IF data.conteudo = "" \/ data.tipoConteudo \notin {"texto", "audio_transcrito"}
    THEN [st |-> "thrown", rows |-> rows, id |-> 0]
  ELSE IF o = "fail" THEN [st |-> "thrown", rows |-> rows, id |-> 0]
  ELSE [st |-> "ok", rows |-> rows (+) SetToBag({PropostaRow(data)}),
        id |-> BagCardinality(rows) + 1]

\* Rows per table in a run.
MaxRows == 1

\* WhatsAppIntegrationService.trackPLOpinion 107-132: whatever is thrown is
\* logged; the promise resolves to undefined either way.
trackPLOpinion(phone, opinion, o1, o2) ==
  /\ Cardinality(interacoes) < MaxRows
  /\ LET c == ensureCitizen(cidadaos, phone, o1)
         i == processInteraction(interacoes,
                [cidadaoId |-> c.id, tipoInteracao |-> "opiniao",
                 opiniao |-> opinion,
                 conteudo |-> <<"Opinião sobre PL", PLNumber, opinion>>], o2)
     IN /\ cidadaos' = c.rows
        /\ interacoes' = IF c.st = "ok" THEN i.rows ELSE interacoes
        /\ ret' = [op |-> "trackPLOpinion", st |-> "returned"]
  /\ UNCHANGED <<conversation, service, citizenCalls, propostas, projetosLei>>

Contents == {"", "quero mais creches"}

\* WhatsAppIntegrationService.processCitizenProposal 137-188: classifies,
\* stores, and returns the id with the classification, or null when
\* anything was thrown.
processCitizenProposal(phone, content, completion, o1, o2) ==
  /\ BagCardinality(propostas) < MaxRows
  /\ LET c == ensureCitizen(cidadaos, phone, o1)
         classification == classifyTheme(completion)
         p == processProposal(propostas,
                [cidadaoId |-> c.id, conteudo |-> content,
                 tipoConteudo |-> "texto",
                 cidade |-> getCityFromPhone(phone),
                 grupoInclusao |-> Undefined,
                 temaPrincipal |-> classification.temaPrincipal,
                 temasSecundarios |-> classification.temasSecundarios,
                 confidenceScore |-> classification.confidenceScore], o2)
     IN /\ cidadaos' = c.rows
        /\ propostas' = IF c.st = "ok" THEN p.rows ELSE propostas
        /\ ret' = IF c.st = "ok" /\ p.st = "ok"
                    THEN [op |-> "processCitizenProposal", st |-> "returned",
                          null |-> FALSE, id |-> p.id,
                          classification |->
                            [temaPrincipal |-> classification.temaPrincipal,
                             temasSecundarios |->
                               classification.temasSecundarios,
                             confidenceScore |->
                               classification.confidenceScore]]
                    ELSE [op |-> "processCitizenProposal", st |-> "returned",
                          null |-> TRUE]
  /\ UNCHANGED <<conversation, service, citizenCalls, interacoes, projetosLei>>

\* The tables are empty when the service starts on a new database.
DataInit ==
  /\ userSessions = [k \in Keys |-> 0]
  /\ heap = [o \in ObjIds |-> NoSession]
  /\ pc = [t \in Turns |-> "new"]
  /\ msg = [t \in Turns |-> NoMsg]
  /\ text = [t \in Turns |-> Null]
  /\ phoneNumber = [t \in Turns |-> Null]
  /\ session = [t \in Turns |-> 0]
  /\ result = [t \in Turns |-> NoResult]
  /\ sent = [t \in Turns |-> <<>>]
  /\ writes = [t \in Turns |-> <<>>]
  /\ startStep = [t \in Turns |-> Null]
  /\ failed = [t \in Turns |-> {}]
  /\ citizenCalls = [c \in CallIds |-> NoCall]
  /\ whatsappService = ServiceUp
  /\ transport = Quiet
  /\ cidadaos = {}
  /\ interacoes = {}
  /\ propostas = EmptyBag
  /\ projetosLei = EmptyBag
  /\ ret = NoRet

DataNext ==
  \/ \E completion \in Completions : callClassifyTheme(completion)
  \/ \E phone \in Phones, opinion \in Opinions, o1, o2 \in DbOutcomes :
       trackPLOpinion(phone, opinion, o1, o2)
  \/ \E phone \in Phones, content \in Contents, completion \in Completions,
        o1, o2 \in DbOutcomes :
       processCitizenProposal(phone, content, completion, o1, o2)

DataSpec == DataInit /\ [][DataNext]_vars

\* ---------------------------------------------------------------- citizens
\* ensureCitizen 53-61: the call hashes the phone number and awaits
\* getOrCreateCidadao, which awaits prisma.cidadao.findUnique.
ensureCitizen_call(c, phone) ==
  /\ citizenCalls[c].pc = "idle"
  /\ \A earlier \in CallIds : earlier < c => citizenCalls[earlier].pc # "idle"
  /\ citizenCalls' = [citizenCalls EXCEPT ![c] =
       [pc |-> "findUnique", telefoneHash |-> hashPhoneNumber(phone),
        cidade |-> getCityFromPhone(phone)]]
  /\ UNCHANGED <<conversation, service, cidadaos, interacoes, propostas, projetosLei,
                 ret>>

\* What a call ends with: the id returned, or 'Failed to get or create
\* citizen' thrown (153-154) and thrown on by ensureCitizen (70-73).
Returned(call, id) ==
  [pc |-> "returned", telefoneHash |-> call.telefoneHash, id |-> id]
Threw(call, cause) ==
  [pc |-> "thrown", telefoneHash |-> call.telefoneHash, cause |-> cause]

\* getOrCreateCidadao 133-139: findUnique answers; an existing row ends the
\* call, otherwise the call goes on to prisma.cidadao.create.
getOrCreateCidadao_findUnique(c, o) ==
  /\ citizenCalls[c].pc = "findUnique"
  /\ citizenCalls' = [citizenCalls EXCEPT ![c] =
       IF o = "fail" THEN Threw(@, "database")
       ELSE IF \E row \in cidadaos : row.telefone_hash = @.telefoneHash
         THEN Returned(@, (CHOOSE row \in cidadaos :
                             row.telefone_hash = @.telefoneHash).id)
       ELSE [@ EXCEPT !.pc = "create"]]
  /\ UNCHANGED <<conversation, service, cidadaos, interacoes, propostas, projetosLei,
                 ret>>

\* prisma.cidadao.create 142-150 under the unique index
\* cidadaos_telefone_hash_key (migration.sql 82): a second row with the
\* hash is refused, and the error is thrown on.
Create(rows, call, o) ==
  IF o = "fail" THEN [rows |-> rows, call |-> Threw(call, "database")]
  ELSE IF \E row \in rows : row.telefone_hash = call.telefoneHash
    THEN [rows |-> rows, call |-> Threw(call, "unique")]
  ELSE [rows |-> rows \cup {[id |-> Cardinality(rows) + 1,
                             telefone_hash |-> call.telefoneHash,
                             cidade |-> call.cidade]},
        call |-> Returned(call, Cardinality(rows) + 1)]

\* getOrCreateCidadao 141-155: the create is answered.
getOrCreateCidadao_create(c, o) ==
  /\ citizenCalls[c].pc = "create"
  /\ LET done == Create(cidadaos, citizenCalls[c], o)
     IN /\ cidadaos' = done.rows
        /\ citizenCalls' = [citizenCalls EXCEPT ![c] = done.call]
  /\ UNCHANGED <<conversation, service, interacoes, propostas, projetosLei,
                 ret>>

\* A citizen who wrote before may be stored already.
CitizenInit ==
  /\ userSessions = [k \in Keys |-> 0]
  /\ heap = [o \in ObjIds |-> NoSession]
  /\ pc = [t \in Turns |-> "new"]
  /\ msg = [t \in Turns |-> NoMsg]
  /\ text = [t \in Turns |-> Null]
  /\ phoneNumber = [t \in Turns |-> Null]
  /\ session = [t \in Turns |-> 0]
  /\ result = [t \in Turns |-> NoResult]
  /\ sent = [t \in Turns |-> <<>>]
  /\ writes = [t \in Turns |-> <<>>]
  /\ startStep = [t \in Turns |-> Null]
  /\ failed = [t \in Turns |-> {}]
  /\ citizenCalls = [c \in CallIds |-> NoCall]
  /\ whatsappService = ServiceUp
  /\ transport = Quiet
  /\ \E known \in SUBSET {<<1, 1, 9, 8>>} :
       cidadaos = {[id |-> 1, telefone_hash |-> hashPhoneNumber(phone),
                    cidade |-> getCityFromPhone(phone)] : phone \in known}
  /\ interacoes = {}
  /\ propostas = EmptyBag
  /\ projetosLei = EmptyBag
  /\ ret = NoRet

CitizenNext ==
  \E c \in CallIds :
    \/ \E phone \in Phones : ensureCitizen_call(c, phone)
    \/ \E o \in DbOutcomes : getOrCreateCidadao_findUnique(c, o)
    \/ \E o \in DbOutcomes : getOrCreateCidadao_create(c, o)

CitizenSpec == CitizenInit /\ [][CitizenNext]_vars

\* --------------------------------------------------------------- metrics
\* A percentage is kept exact, as the fraction num / den.
Percent(num, den) == [num |-> num, den |-> den]

\* percentual >= n for a whole number n
AtLeast(percentual, n) == percentual.num >= n * percentual.den

\* Variant: the high band starts above 70.
classifyLacuna_above(percentual) ==
  IF ~AtLeast(percentual, 71) THEN
    IF AtLeast(percentual, 40) THEN "Média Lacuna" ELSE "Baixa Lacuna"
  ELSE "Alta Lacuna"

\* MetricsCalculator.classifyLacuna 28-36
classifyLacuna(percentual) ==
  IF AtLeast(percentual, 70) THEN "Alta Lacuna"
  ELSE IF AtLeast(percentual, 40) THEN "Média Lacuna"
  ELSE "Baixa Lacuna"

\* Variant: the percentage is not kept from going below zero.
Lacuna_signed(demandasCount, plsCount) ==
  IF demandasCount > 0
    THEN Percent((demandasCount - plsCount) * 100, demandasCount)
    ELSE Percent(0, 1)

\* calculateLacunaByTheme 72-77 (and 121-125, 173-177): the percentage of
\* the demands no bill answers, never below zero.
Lacuna(demandasCount, plsCount) ==
  IF demandasCount > 0
    THEN IF demandasCount - plsCount > 0
           THEN Percent((demandasCount - plsCount) * 100, demandasCount)
           ELSE Percent(0, 1)
    ELSE Percent(0, 1)

\* Number(lacuna.toFixed(2)) for lacuna >= 0, in hundredths: the nearest
\* hundredth, a half rounded up.
ToFixed2(percentual) ==
  (200 * percentual.num + percentual.den) \div (2 * percentual.den)

\* The record the map callback returns (79-85, 127-133, 179-185).
LacunaMetric(key, demandasCount, plsCount) ==
  [key |-> key,
   demandasCidadaos |-> demandasCount,
   plsTramitacao |-> plsCount,
   percentualLacuna |-> ToFixed2(Lacuna(demandasCount, plsCount)),
   classificacao |-> classifyLacuna(Lacuna(demandasCount, plsCount))]

\* SELECT column, COUNT(*) ... WHERE column IS NOT NULL GROUP BY column: the
\* values of the column, and the number of rows with a value.
GroupKeys(rows, column) == {r[column] : r \in BagToSet(rows)} \ {Null}
CountOf(rows, column, key) ==
  BagCardinality([r \in {x \in BagToSet(rows) : x[column] = key} |-> rows[r]])

\* WHERE status = 'tramitacao'
Tramitacao(rows) ==
  [r \in {x \in BagToSet(rows) : x.status = "tramitacao"} |-> rows[r]]

\* results.sort((a, b) => b.percentualLacuna - a.percentualLacuna) on rows
\* the query returned in any order.
SortedByLacuna(results) ==
  {list \in [1..Cardinality(results) -> results] :
     /\ \A i, j \in DOMAIN list : i # j => list[i] # list[j]
     /\ \A i, j \in DOMAIN list :
          i < j => list[i].percentualLacuna >= list[j].percentualLacuna}

\* What a calculation hands to its caller: the sorted records, or 'Failed
\* to calculate ...' thrown when a query failed.
Calculated(op, results, o) ==
  /\ IF o = "fail"
       THEN ret' = [op |-> op, st |-> "thrown"]
       ELSE \E list \in SortedByLacuna(results) :
              ret' = [op |-> op, st |-> "returned", metrics |-> list]
  /\ UNCHANGED <<conversation, service, citizenCalls, cidadaos, interacoes, propostas,
                 projetosLei>>

\* plsMap.get(key) || 0 over the counts of the bills in tramitação
MatchedBy(column) ==
  {LacunaMetric(key, CountOf(propostas, column, key),
                CountOf(Tramitacao(projetosLei), column, key)) :
     key \in GroupKeys(propostas, column)}

\* MetricsCalculator.calculateLacunaByTheme 43-93
calculateLacunaByTheme(o) ==
  Calculated("calculateLacunaByTheme", MatchedBy("tema_principal"), o)

\* MetricsCalculator.calculateLacunaByCidade 148-195
calculateLacunaByCidade(o) ==
  Calculated("calculateLacunaByCidade", MatchedBy("cidade"), o)

\* MetricsCalculator.calculateLacunaByGroup 98-143: every group is given
\* Math.floor(totalPlsCount / demandas.length) bills.
calculateLacunaByGroup(o) ==
  LET demandas == GroupKeys(propostas, "grupo_inclusao")
      totalPlsCount == BagCardinality(Tramitacao(projetosLei))
  IN Calculated("calculateLacunaByGroup",
       {LacunaMetric(key, CountOf(propostas, "grupo_inclusao", key),
                     totalPlsCount \div Cardinality(demandas)) :
          key \in demandas}, o)

\* Rows the tables may hold when the metrics are asked for.
Proposta(tema, cidade, grupo) ==
  [cidadao_id |-> 1, conteudo |-> "quero mais creches",
   tipo_conteudo |-> "texto", cidade |-> cidade, grupo_inclusao |-> grupo,
   tema_principal |-> tema, temas_secundarios |-> <<"json", <<>>>>,
   confidence_score |-> SqlNum(95)]
ProjetoLei(tema, cidade, status) ==
  [tema_principal |-> tema, cidade |-> cidade, status |-> status]

\* Numbers of equal rows.
DemandCounts == {0, 1, 3, 100, 100000}
BillCounts == {0, 1, 30, 60, 61, 200, 30001}

\* The bag with count[r] copies of each row r.
BagOf(count) == [r \in {x \in DOMAIN count : count[x] > 0} |-> count[r]]

MetricsInit ==
  /\ userSessions = [k \in Keys |-> 0]
  /\ heap = [o \in ObjIds |-> NoSession]
  /\ pc = [t \in Turns |-> "new"]
  /\ msg = [t \in Turns |-> NoMsg]
  /\ text = [t \in Turns |-> Null]
  /\ phoneNumber = [t \in Turns |-> Null]
  /\ session = [t \in Turns |-> 0]
  /\ result = [t \in Turns |-> NoResult]
  /\ sent = [t \in Turns |-> <<>>]
  /\ writes = [t \in Turns |-> <<>>]
  /\ startStep = [t \in Turns |-> Null]
  /\ failed = [t \in Turns |-> {}]
  /\ citizenCalls = [c \in CallIds |-> NoCall]
  /\ whatsappService = ServiceUp
  /\ transport = Quiet
  /\ cidadaos = {}
  /\ interacoes = {}
  /\ ret = NoRet
  /\ \E d1 \in DemandCounts, d2 \in {0, 2}, d0 \in {0, 1} :
       propostas = BagOf(
         Proposta("Saúde", "São Paulo", "Mulheres") :> d1
         @@ Proposta("Educação", "Recife", "PCDs") :> d2
         @@ Proposta(Null, "São Paulo", Null) :> d0)
  /\ \E b1 \in BillCounts, b2 \in {0, 1}, b0 \in {0, 5} :
       projetosLei = BagOf(
         ProjetoLei("Saúde", "São Paulo", "tramitacao") :> b1
         @@ ProjetoLei("Transporte", "Recife", "tramitacao") :> b2
         @@ ProjetoLei("Saúde", "São Paulo", "arquivado") :> b0)

MetricsNext ==
  \E o \in DbOutcomes :
    \/ calculateLacunaByTheme(o)
    \/ calculateLacunaByCidade(o)
    \/ calculateLacunaByGroup(o)

MetricsSpec == MetricsInit /\ [][MetricsNext]_vars

\* ------------------------------------------------------------ properties
\* The turn has read its session and has not ended.
InTurn(t) == session[t] # 0 /\ pc[t] # "done"

\* The observed turn ends in this step.
Ends == pc[Observed] # "done" /\ pc'[Observed] = "done"

HasSent(t, ms) == \E i \in 1..Len(sent[t]) : sent[t][i] \in ms

HasWritten(t, ws) == \E i \in 1..Len(writes[t]) : writes[t][i] \in ws

\* The endpoint a session key belongs to.
Owner(key) == IF key = "5521" THEN "E2" ELSE "E1"

AICalls == {"transcribe", "summarize", "answer", "tts"}

ErrorMsgs == {M("audio_error"), M("pl_error"), M("question_error"),
              M("tts_error")}

\* C1: two turns that resolved to the same session key are never both
\* between their session read and their end: the second turn reads the
\* session only after the first has ended.
C1_Serialized ==
  \A t, u \in Turns :
    (t # u /\ InTurn(t) /\ InTurn(u)) => phoneNumber[t] # phoneNumber[u]

\* C2: a turn whose LID lookup gave no phone number sends nothing, neither
\* reads nor creates nor changes a session, and ends.
C2_Dropped ==
  "lookup" \in failed[Observed] =>
    /\ sent[Observed] = <<>>
    /\ writes[Observed] = <<>>
    /\ session[Observed] = 0
    /\ pc[Observed] = "done"

\* C2, its case: a LID message whose lookup failed has been handled.
C2_Witness ==
  /\ pc[Observed] = "done"
  /\ IsLid(msg[Observed].remoteJid)
  /\ "lookup" \in failed[Observed]

\* C3: every session write of a turn goes to the key resolved for the
\* message when the turn started.
C3_KeyThreaded ==
  \A i \in 1..Len(writes[Observed]) :
    writes[Observed][i].key = phoneNumber[Observed]

\* C4: a step of a turn changes no session stored under a key of another
\* endpoint than the one its message came from.
C4_Isolation ==
  [][\A t \in Turns :
       pc'[t] # pc[t] =>
         LET jid == IF pc[t] = "new" THEN msg'[t].remoteJid
                                     ELSE msg[t].remoteJid
         IN \A k \in Keys :
              Owner(k) # Endpoint(jid) =>
                SessionAt(userSessions', heap', k)
                  = SessionAt(userSessions, heap, k)]_vars

\* C4, its case: turns of the two endpoints are under way together, each
\* having written its own session while the other was suspended.
C4_Witness ==
  /\ msg[1].remoteJid = JidPN1 /\ pc[1] = "pl_send"
  /\ msg[2].remoteJid = JidPN2 /\ pc[2] = "op_welcome"

\* C5: when a turn that started in waiting_opinion with the text "contra"
\* ends, exactly one interaction with opinion against is stored for the
\* user and the user's session has step idle.
C5_ContraPersisted ==
  [][(Ends /\ startStep[Observed] = "waiting_opinion"
           /\ Lower(text[Observed]) = "contra") =>
       /\ Cardinality({r \in interacoes' :
            r.key = phoneNumber[Observed] /\ r.opinion = "against"}) = 1
       /\ SessionAt(userSessions', heap', phoneNumber[Observed]).step = "idle"
    ]_vars

\* C6: an opinion confirmation is among the messages of a turn only if an
\* interaction of the user has been stored.
C6_ConfirmAfterPersist ==
  HasSent(Observed, {M("confirm_favor"), M("confirm_contra")}) =>
    \E r \in interacoes : r.key = phoneNumber[Observed]

\* A call to the transcription, summary, answer or speech service threw in
\* the turn, and the turn has ended.
AIFailed(t) == pc[t] = "done" /\ failed[t] \cap AICalls # {}

\* C7 (amended): after a failed AI call the turn has sent an error message
\* unless a send failed too, and has written no other step than the one it
\* started in, except that a failed speech synthesis of the curated bills
\* is followed by storing step idle.
C7_FailureKeepsStep ==
  AIFailed(Observed) =>
    /\ "send" \notin failed[Observed] => HasSent(Observed, ErrorMsgs)
    /\ \A i \in 1..Len(writes[Observed]) :
         LET w == writes[Observed][i]
         IN \/ w.step = startStep[Observed]
            \/ /\ startStep[Observed] = "waiting_curation_audio_choice"
               /\ "tts" \in failed[Observed]
               /\ w = Write(phoneNumber[Observed], "set", "idle")

\* C7, its case: the speech synthesis of the curated bills failed, the
\* apology was sent and the session stored with step idle.
C7_Witness ==
  /\ AIFailed(Observed)
  /\ startStep[Observed] = "waiting_curation_audio_choice"
  /\ HasSent(Observed, {M("tts_error")})
  /\ HasWritten(Observed, {Write(phoneNumber[Observed], "set", "idle")})

\* C7 as stated: after a failed AI call an error message has been sent and
\* every step the turn wrote is the step it started in.
C7_StepKept ==
  (AIFailed(Observed) /\ "send" \notin failed[Observed]) =>
    /\ HasSent(Observed, ErrorMsgs)
    /\ \A i \in 1..Len(writes[Observed]) :
         writes[Observed][i].step = startStep[Observed]

\* The completion of the summary request came back in the turn.
Summarized(t) == result[t].summary # Null

\* C8 (amended): a stored session with step waiting_question has a
\* non-empty plSummary; a summary request that throws is followed by no
\* change of a session and by the error message unless a send failed; an
\* empty completion is stored as the fixed sentence with step
\* waiting_question.
C8_SummaryPresent ==
  /\ \A k \in Keys :
       LET s == SessionAt(userSessions, heap, k)
       IN s.step = "waiting_question" => Truthy(s.plSummary)
  /\ (pc[Observed] = "done" /\ "summarize" \in failed[Observed]) =>
       /\ \A i \in 1..Len(writes[Observed]) : writes[Observed][i].op = "create"
       /\ "send" \notin failed[Observed] => HasSent(Observed, {M("pl_error")})
  /\ (pc[Observed] \in {"pl_send", "done"} /\ result[Observed].content = "") =>
       /\ result[Observed].summary = "Não foi possível gerar o resumo."
       /\ \E k \in Keys :
            HasWritten(Observed, {Write(k, "mutate", "waiting_question")})

\* C8, its case: an empty completion came back and a session is stored
\* with step waiting_question and the fixed sentence as its summary.
C8_Witness ==
  /\ pc[Observed] = "done"
  /\ result[Observed].content = ""
  /\ \E k \in Keys :
       LET s == SessionAt(userSessions, heap, k)
       IN s.step = "waiting_question" /\ s.plSummary = result[Observed].summary

\* C8 as stated: a summary request that yields no text is followed by the
\* error message and by no write of step waiting_question.
C8_EmptyLeavesIdle ==
  (pc[Observed] = "done" /\ result[Observed].content = ""
     /\ "send" \notin failed[Observed]) =>
    /\ HasSent(Observed, {M("pl_error")})
    /\ \A i \in 1..Len(writes[Observed]) :
         writes[Observed][i].step # "waiting_question"

\* C9: when a turn that started in idle with the text "1" and got its
\* summary ends, the session stored under the key resolved for the message
\* has step waiting_question and that summary.
C9_StoredSummary ==
  [][(Ends /\ startStep[Observed] = "idle" /\ Lower(text[Observed]) = "1"
           /\ Summarized(Observed)) =>
       LET s == SessionAt(userSessions', heap', phoneNumber[Observed])
       IN s.step = "waiting_question"
            /\ s.plSummary = result[Observed].summary]_vars

\* A text "1" met step idle, the summary came back and no send failed.
ViewedBill(t) ==
  /\ pc[t] = "done"
  /\ msg[t].kind = "text"
  /\ startStep[t] = "idle"
  /\ Lower(text[t]) = "1"
  /\ Summarized(t)
  /\ failed[t] = {}

\* C10 (amended): the turn of a text "1" in idle whose summary came back
\* and whose sends all went through has sent exactly three messages: the
\* fetching notice, the summary and the audio question, in this order.
C10_NoticeSummaryPrompt ==
  ViewedBill(Observed) =>
    sent[Observed] = <<M("pl_notice"), MSummary(result[Observed].summary),
                       M("audio_prompt")>>

\* C10, its case: such a turn has ended.
C10_Witness == ViewedBill(Observed) /\ Len(sent[Observed]) = 3

\* C10 as stated: such a turn has sent exactly two messages, the summary
\* and the audio question.
C10_SummaryPrompt ==
  ViewedBill(Observed) =>
    sent[Observed] = <<MSummary(result[Observed].summary), M("audio_prompt")>>

\* C11: every stored session has one of the five steps, every turn that
\* has started and not ended has a next step to take whatever step and text
\* met, and no exception leaves the handler.
C11_Complete ==
  /\ \A k \in Keys :
       userSessions[k] # 0 => heap[userSessions[k]].step \in Steps
  /\ \A t \in Turns : pc[t] \notin {"new", "done"} => ENABLED Step(t)
  /\ \A t \in Turns : "rejected" \notin failed[t]

\* C11, its case: a turn met step waiting_opinion, a send threw, the
\* exception was logged and the turn ended.
C11_Witness ==
  /\ pc[Observed] = "done"
  /\ startStep[Observed] = "waiting_opinion"
  /\ "logged" \in failed[Observed]
  /\ SessionAt(userSessions, heap, phoneNumber[Observed]).step \in Steps

\* The text is none of the options the step offers (a step that takes any
\* text has none).
Unmapped(step, textLower) ==
  /\ ~IsGreeting(textLower)
  /\ CASE step = "idle" -> textLower \notin {"1", "4"}
       [] step = "waiting_area_selection" -> SelectedArea(textLower) = Undefined
       [] step = "waiting_curation_audio_choice" ->
            ~(textLower \in {"1", "2"} \/ Includes(textLower, "não")
                \/ Includes(textLower, "nao") \/ Includes(textLower, "sim"))
       [] OTHER -> FALSE

\* What the step sends again for such a text.
Reprompt(step) ==
  CASE step = "idle" -> M("welcome")
    [] step = "waiting_area_selection" -> M("area_menu")
    [] OTHER -> M("choice_invalid")

\* The text met step waiting_opinion and names no opinion.
SkippedOpinion(t) ==
  /\ pc[t] = "done"
  /\ startStep[t] = "waiting_opinion"
  /\ ~IsGreeting(Lower(text[t]))
  /\ Opinion(Lower(text[t])) = "pular"
  /\ failed[t] = {}

\* C12 (amended): in idle, waiting_area_selection and
\* waiting_curation_audio_choice a text that is none of the step's options
\* makes the turn write no other step than the one it met and send the
\* step's prompt again unless a send fails; in waiting_opinion a text that
\* names no opinion is a skip: the skip message and the welcome menu are
\* sent and step idle is stored.
C12_UnmappedReprompts ==
  /\ (pc[Observed] = "done"
        /\ Unmapped(startStep[Observed], Lower(text[Observed]))) =>
       /\ \A i \in 1..Len(writes[Observed]) :
            writes[Observed][i].step = startStep[Observed]
       /\ "send" \notin failed[Observed] =>
            HasSent(Observed, {Reprompt(startStep[Observed])})
  /\ SkippedOpinion(Observed) =>
       /\ HasSent(Observed, {M("skip")})
       /\ HasSent(Observed, {M("welcome")})
       /\ HasWritten(Observed, {Write(phoneNumber[Observed], "set", "idle")})

\* C12, its case: an invalid audio choice was answered with the prompt.
C12_Witness ==
  /\ pc[Observed] = "done"
  /\ startStep[Observed] = "waiting_curation_audio_choice"
  /\ Unmapped(startStep[Observed], Lower(text[Observed]))
  /\ HasSent(Observed, {M("choice_invalid")})
  /\ writes[Observed] = <<>>

\* C12 as stated: in every step, waiting_opinion too, a text that is none
\* of the named options makes the turn write no other step than the one it
\* met.
C12_EveryStepKept ==
  SkippedOpinion(Observed) =>
    \A i \in 1..Len(writes[Observed]) :
      writes[Observed][i].step = startStep[Observed]

\* C13: when a turn whose text is a greeting keyword ends, the message not
\* having been dropped and no send having thrown, the welcome menu is the
\* message it sent and the session stored under its key has step idle,
\* whatever step the text met.
C13_GreetingResets ==
  [][(Ends /\ IsGreeting(Lower(text[Observed]))
           /\ failed'[Observed] = {}) =>
       /\ sent'[Observed] = <<M("welcome")>>
       /\ SessionAt(userSessions', heap', phoneNumber[Observed]).step = "idle"
    ]_vars

\* C13, its case: the keyword, written in capitals between blanks, met the
\* audio choice and the turn has ended with the session in idle.
C13_Witness ==
  /\ pc[Observed] = "done"
  /\ text[Observed] = " MENU "
  /\ startStep[Observed] = "waiting_curation_audio_choice"
  /\ sent[Observed] = <<M("welcome")>>
  /\ HasWritten(Observed, {Write(phoneNumber[Observed], "set", "idle")})

\* The text is a question: no greeting keyword and neither "1" nor "2".
FreeText(textLower) == ~IsGreeting(textLower) /\ textLower \notin {"1", "2"}

\* m1 is sent before m2 in log.
SentBefore(log, m1, m2) ==
  \E i, j \in 1..Len(log) : i < j /\ log[i] = m1 /\ log[j] = m2

\* C14: when a turn whose free text met step waiting_question ends without
\* any failure, it has sent the answer and after it the opinion question,
\* and the session stored under the key resolved for the message has step
\* waiting_opinion.
C14_AnswerThenOpinion ==
  [][(Ends /\ startStep[Observed] = "waiting_question"
           /\ FreeText(Lower(text[Observed]))
           /\ failed'[Observed] = {}) =>
       /\ SentBefore(sent'[Observed], M("answer"), M("opinion_prompt"))
       /\ SessionAt(userSessions', heap', phoneNumber[Observed]).step
            = "waiting_opinion"]_vars

\* The texts "1" to "10".
AreaOptions == {"1", "2", "3", "4", "5", "6", "7", "8", "9", "10"}

\* The text met step waiting_area_selection and is neither a greeting
\* keyword nor one of the ten options.
InvalidArea(t) ==
  /\ startStep[t] = "waiting_area_selection"
  /\ ~IsGreeting(Lower(text[t]))
  /\ Lower(text[t]) \notin AreaOptions

\* C15: a turn whose text met step waiting_area_selection and is none of
\* the options 1 to 10 never asks for curated bills, writes no other step
\* than waiting_area_selection and, unless a send fails, ends having sent
\* the area menu again and stored step waiting_area_selection.
C15_InvalidAreaStays ==
  InvalidArea(Observed) =>
    /\ pc[Observed] \in {"area_invalid", "done"}
    /\ result[Observed] = NoResult
    /\ "curation" \notin failed[Observed]
    /\ \A i \in 1..Len(writes[Observed]) :
         writes[Observed][i].step = "waiting_area_selection"
    /\ (pc[Observed] = "done" /\ "send" \notin failed[Observed]) =>
         /\ SentBefore(sent[Observed], M("area_invalid"), M("area_menu"))
         /\ HasWritten(Observed,
              {Write(phoneNumber[Observed], "set", "waiting_area_selection")})

\* C15, its case: "11" met step waiting_area_selection and the turn has
\* ended with the menu sent again.
C15_Witness ==
  /\ pc[Observed] = "done"
  /\ text[Observed] = "11"
  /\ InvalidArea(Observed)
  /\ sent[Observed] = <<M("area_invalid"), M("area_menu")>>

\* One of the options 1 to 10 met step waiting_area_selection and the turn
\* has ended without any failure.
AreaSelected(t) ==
  /\ pc[t] = "done"
  /\ startStep[t] = "waiting_area_selection"
  /\ Lower(text[t]) \in AreaOptions
  /\ failed[t] = {}

\* C16: a stored session with step waiting_curation_audio_choice has a
\* non-empty curationPLs; a turn that selected an area and got bills has
\* sent the list and then the audio question and stored step
\* waiting_curation_audio_choice; one that got none has sent the
\* nothing-found message and the welcome menu and stored step idle only.
C16_BatchPresent ==
  /\ \A k \in Keys :
       LET s == SessionAt(userSessions, heap, k)
       IN s.step = "waiting_curation_audio_choice" =>
            s.curationPLs.defined /\ Len(s.curationPLs.items) > 0
  /\ (AreaSelected(Observed) /\ Len(result[Observed].curated) > 0) =>
       /\ SentBefore(sent[Observed], M("curation_list"),
                     M("curation_audio_prompt"))
       /\ writes[Observed] = <<Write(phoneNumber[Observed], "set",
                                     "waiting_curation_audio_choice")>>
  /\ (AreaSelected(Observed) /\ Len(result[Observed].curated) = 0) =>
       /\ SentBefore(sent[Observed], M("area_empty"), M("welcome"))
       /\ writes[Observed] = <<Write(phoneNumber[Observed], "set", "idle")>>

\* C16, its case: an area was selected, bills came back and the session of
\* the user is stored with them and step waiting_curation_audio_choice.
C16_Witness ==
  /\ AreaSelected(Observed)
  /\ LET s == SessionAt(userSessions, heap, phoneNumber[Observed])
     IN /\ s.step = "waiting_curation_audio_choice"
        /\ s.curationPLs = PLs(result[Observed].curated)
        /\ Len(result[Observed].curated) > 0

\* The text declines the audio; the text asks for it.
NoLike(textLower) ==
  textLower = "2" \/ Includes(textLower, "não") \/ Includes(textLower, "nao")

YesLike(textLower) ==
  ~NoLike(textLower) /\ (textLower = "1" \/ Includes(textLower, "sim"))

\* C17: when a turn whose text met step waiting_curation_audio_choice and
\* declines or asks for the audio ends without a failed send, the session
\* stored under its key has step idle and no curationPLs; when the audio
\* was asked for and synthesised, the audio is among the messages sent by
\* the time the session is stored.
C17_ChoiceClears ==
  [][(Ends /\ startStep[Observed] = "waiting_curation_audio_choice"
           /\ ~IsGreeting(Lower(text[Observed]))
           /\ (NoLike(Lower(text[Observed])) \/ YesLike(Lower(text[Observed])))
           /\ "send" \notin failed'[Observed]) =>
       LET s == SessionAt(userSessions', heap', phoneNumber[Observed])
       IN /\ s.step = "idle"
          /\ s.curationPLs = NoPLs
          /\ (NoLike(Lower(text[Observed])) =>
                sent'[Observed][Len(sent'[Observed])] = M("choice_ack"))
          /\ (YesLike(Lower(text[Observed])) /\ "tts" \notin failed'[Observed]) =>
                SentBefore(sent'[Observed], M("audio"), M("audio_sent"))
    ]_vars

\* C17, its case: the audio was asked for, synthesised and sent, and the
\* session is stored with step idle and without the bills.
C17_Witness ==
  /\ pc[Observed] = "done"
  /\ startStep[Observed] = "waiting_curation_audio_choice"
  /\ YesLike(Lower(text[Observed]))
  /\ failed[Observed] = {}
  /\ HasSent(Observed, {M("audio")})
  /\ SessionAt(userSessions, heap, phoneNumber[Observed]).curationPLs = NoPLs
  /\ SessionAt(userSessions, heap, phoneNumber[Observed]).step = "idle"

\* The turn handled an inbound message (a key was resolved for it) and has
\* ended.
Handled(t) == pc[t] = "done" /\ phoneNumber[t] # Null

\* C18: a handled inbound message has made exactly one session write, to
\* the key resolved for it, and a stored session only ever changes in a
\* step of a turn that handles an inbound message resolved to its key.
C18_OneWritePerEvent ==
  /\ [](Handled(Observed) =>
          /\ Len(writes[Observed]) = 1
          /\ writes[Observed][1].key = phoneNumber[Observed])
  /\ [][\A k \in Keys :
          SessionAt(userSessions', heap', k) # SessionAt(userSessions, heap, k)
            => \E t \in Turns :
                 /\ pc'[t] # pc[t]
                 /\ (IF pc[t] = "new" THEN msg'[t].kind ELSE msg[t].kind)
                      \in {"text", "audio"}
                 /\ (IF pc[t] \in {"new", "lookup"} THEN phoneNumber'[t]
                                                    ELSE phoneNumber[t]) = k
       ]_vars

\* ------------------------------------------------- calls that never return
\* await whatsappService.getPNForLID (part_014:259), await
\* openaiService.summarizePL (445) and await openaiService.answerQuestion
\* (518) are awaited without a timeout: when the promise never settles, the
\* turn stays suspended after what it sent before the call.
neverReturns(t) ==
  /\ pc[t] \in {"lookup", "pl_fetch", "q_answer"}
  /\ pc' = [pc EXCEPT ![t] = "pending"]
  /\ \E o \in SendAll(sent[t],
                      CASE pc[t] = "pl_fetch" -> <<M("pl_notice")>>
                        [] pc[t] = "q_answer" -> <<M("thinking")>>
                        [] OTHER -> <<>>) :
       o.st = "ok" /\ sent' = Sent(t, o.log)
  /\ UNCHANGED <<store, db, locals, writes, startStep, failed>>

NextOrNever == Next \/ \E t \in Turns : neverReturns(t)

\* The event loop runs every continuation that is ready: a turn whose next
\* step is enabled takes a step.
LiveSpec ==
  Init /\ [][NextOrNever]_vars
       /\ \A t \in Turns : WF_vars(Step(t) \/ neverReturns(t))

\* C19: a turn that waits for the identity lookup or for a language-model
\* call ends.
C19_Terminates ==
  \A t \in Turns :
    (pc[t] \in {"lookup", "pl_fetch", "q_answer"}) ~> (pc[t] = "done")

\* The key an event from the canonical address of jid's endpoint is handled
\* under (handleIncomingMessage 254-267 on the phone-number address).
CanonicalKey(jid) ==
  IF IsLid(jid) THEN ResolveInbound(LidMapping(jid), NullJid)
                ELSE ResolveInbound(jid, NullJid)

\* C20: an event from the obfuscated address whose lookup succeeded is
\* handled under the key of the canonical address of the same endpoint: it
\* reads the session stored under that key and writes only under that key.
C20_SameKey ==
  (/\ IsLid(msg[Observed].remoteJid)
   /\ phoneNumber[Observed] # Null)
    => /\ phoneNumber[Observed] = CanonicalKey(msg[Observed].remoteJid)
       /\ \A i \in 1..Len(writes[Observed]) :
            writes[Observed][i].key = CanonicalKey(msg[Observed].remoteJid)

\* C21: an inbound message from a group address ends its turn at once: the
\* step that takes it changes no stored session and sends nothing, and the
\* turn has sent nothing and written nothing when it is over.
C21_GroupIgnored ==
  /\ []((pc[Observed] # "new" /\ msg[Observed].remoteJid = JidGroup)
          => /\ pc[Observed] = "done"
             /\ sent[Observed] = <<>>
             /\ writes[Observed] = <<>>)
  /\ [][(pc[Observed] = "new" /\ msg'[Observed].remoteJid = JidGroup)
          => /\ userSessions' = userSessions
             /\ heap' = heap]_vars

\* A group message was taken while a session was stored.
C21_Witness ==
  /\ pc[Observed] = "done"
  /\ msg[Observed].remoteJid = JidGroup
  /\ \E k \in Keys : SessionAt(userSessions, heap, k) # NoSession

\* C22: a call of a persistence operation of the integration service that
\* stored no row does not complete normally: it throws to its caller.
C22_FailureReported ==
  [][/\ ((\E phone \in Phones, opinion \in Opinions, o1, o2 \in DbOutcomes :
            trackPLOpinion(phone, opinion, o1, o2))
         /\ interacoes' = interacoes)
           => ret'.st = "thrown"
     /\ ((\E phone \in Phones, content \in Contents,
             completion \in Completions, o1, o2 \in DbOutcomes :
            processCitizenProposal(phone, content, completion, o1, o2))
         /\ propostas' = propostas)
           => ret'.st = "thrown"]_vars

\* The rows a step added to propostas_pauta.
NewPropostas ==
  {row \in BagToSet(propostas') :
     CopiesIn(row, propostas') > CopiesIn(row, propostas)}

\* The classification call threw, or its content was empty or no JSON.
ClassificationFailed(completion) == completion.st # "json"

\* C23: when its classification failed and the database works, a submitted
\* proposal is stored, and the stored row has the theme Outros, confidence
\* 0.0 and a flag for manual review.
C23_FallbackPersisted ==
  [][\A phone \in Phones, completion \in Completions :
       (/\ ClassificationFailed(completion)
        /\ processCitizenProposal(phone, "quero mais creches", completion,
                                  "ok", "ok"))
         => \E row \in NewPropostas :
              /\ row.tema_principal = "Outros"
              /\ row.confidence_score = SqlNum(0)
              /\ "needs_review" \in DOMAIN row
              /\ row.needs_review]_vars

\* C24: whatever the completion holds, the temaPrincipal classifyTheme
\* returns is one of TEMAS, and it is Outros when the reported theme is none
\* of them; so is every theme handed on or stored by processCitizenProposal.
C24_ClosedVocabulary ==
  /\ ret.op = "classifyTheme" =>
       /\ ret.classification.temaPrincipal \in TEMAS
       /\ (/\ ret.completion.st = "json"
           /\ ret.completion.temas_secundarios.kind # "number"
           /\ ret.completion.tema_principal \notin TEMAS)
            => ret.classification.temaPrincipal = "Outros"
  /\ (ret.op = "processCitizenProposal" /\ ~ret.null) =>
       ret.classification.temaPrincipal \in TEMAS
  /\ \A row \in BagToSet(propostas) : row.tema_principal \in TEMAS

\* classifyTheme was given a theme outside TEMAS.
C24_Witness ==
  /\ ret.op = "classifyTheme"
  /\ ret.completion.st = "json"
  /\ ret.completion.tema_principal = "saude"
  /\ ret.classification.temaPrincipal = "Outros"

\* C25: whatever confidence the completion reports, the confidenceScore
\* classifyTheme returns lies between 0 and 1 (0 and 100 hundredths).
C25_ConfidenceInRange ==
  ret.op = "classifyTheme" =>
    /\ 0 <= ret.classification.confidenceScore
    /\ ret.classification.confidenceScore <= 100

\* The proposal a step produced carries a flag for manual review, in the
\* stored row or in the value handed to the caller.
ProposalFlagged ==
  \/ \E row \in NewPropostas : "needs_review" \in DOMAIN row /\ row.needs_review
  \/ /\ "needsReview" \in DOMAIN ret'.classification
     /\ ret'.classification.needsReview

\* C26: a proposal produced by processCitizenProposal is flagged for manual
\* review exactly when the confidence of its classification is below 0.7.
C26_LowConfidenceFlagged ==
  [][\A phone \in Phones, completion \in Completions :
       processCitizenProposal(phone, "quero mais creches", completion,
                              "ok", "ok")
         => (classifyTheme(completion).confidenceScore < 70
               <=> ProposalFlagged)]_vars

\* C27: when the classification call throws or its content is empty or
\* cannot be parsed, classifyTheme returns to its caller, with the theme
\* Outros, no secondary themes and confidence 0.0.
C27_FailureFallback ==
  (ret.op = "classifyTheme" /\ ClassificationFailed(ret.completion))
    => /\ ret.st = "returned"
       /\ ret.classification.temaPrincipal = "Outros"
       /\ ret.classification.temasSecundarios = <<>>
       /\ ret.classification.confidenceScore = 0

\* classifyTheme was called and the content was no JSON.
C27_Witness ==
  /\ ret.op = "classifyTheme"
  /\ ret.completion.st = "text"

\* The metric records of the last calculation.
Metrics ==
  IF ret.op \in {"calculateLacunaByTheme", "calculateLacunaByCidade",
                 "calculateLacunaByGroup"} /\ ret.st = "returned"
    THEN {ret.metrics[i] : i \in DOMAIN ret.metrics}
    ELSE {}

\* max(0, (d - b) / d * 100) in hundredths, times d (kept whole).
GapTimesD(d, b) == IF d > b THEN 10000 * (d - b) ELSE 0

GapAtLeast(d, b, n) == 100 * (IF d > b THEN d - b ELSE 0) >= n * d

\* C29: a record is Alta Lacuna exactly when max(0, (d - b) / d * 100) is
\* at least 70, Média Lacuna exactly when it is at least 40 and below 70,
\* Baixa Lacuna exactly when it is below 40; 100 demands with 30 bills are
\* Alta, with 60 bills Média, with 61 bills Baixa, and no demands are Baixa.
C29_SeverityBands ==
  /\ \A m \in Metrics :
       LET d == m.demandasCidadaos
           b == m.plsTramitacao
       IN d > 0 =>
            /\ m.classificacao = "Alta Lacuna" <=> GapAtLeast(d, b, 70)
            /\ m.classificacao = "Média Lacuna"
                 <=> (GapAtLeast(d, b, 40) /\ ~GapAtLeast(d, b, 70))
            /\ m.classificacao = "Baixa Lacuna" <=> ~GapAtLeast(d, b, 40)
            /\ (d = 100 /\ b = 30) => m.classificacao = "Alta Lacuna"
            /\ (d = 100 /\ b = 60) => m.classificacao = "Média Lacuna"
            /\ (d = 100 /\ b = 61) => m.classificacao = "Baixa Lacuna"
  /\ \A b \in BillCounts :
       LacunaMetric("Saúde", 0, b).classificacao = "Baixa Lacuna"

\* A calculation returned the record of 100 demands and 30 bills.
C29_Witness ==
  \E m \in Metrics :
    /\ m.demandasCidadaos = 100 /\ m.plsTramitacao = 30
    /\ m.classificacao = "Alta Lacuna"

\* The column a calculation groups by.
Dimension(op) ==
  CASE op = "calculateLacunaByTheme" -> "tema_principal"
    [] op = "calculateLacunaByCidade" -> "cidade"
    [] op = "calculateLacunaByGroup" -> "grupo_inclusao"

\* The bills in tramitação whose value for the dimension is the key (a
\* bill has no inclusion group).
MatchingBills(op, key) ==
  IF op = "calculateLacunaByGroup" THEN 0
  ELSE CountOf(Tramitacao(projetosLei), Dimension(op), key)

\* C30: every key of the dimension with a proposal and without a matching
\* bill in tramitação is in the returned metrics exactly once, with
\* plsTramitacao = 0 and percentualLacuna = 100.
C30_UnmetDemandEmitted ==
  Metrics # {} =>
    \A key \in GroupKeys(propostas, Dimension(ret.op)) :
      MatchingBills(ret.op, key) = 0 =>
        /\ Cardinality({i \in DOMAIN ret.metrics :
                          ret.metrics[i].key = key}) = 1
        /\ \A m \in Metrics :
             m.key = key => /\ m.plsTramitacao = 0
                            /\ m.percentualLacuna = 10000

\* C31: in every returned record plsTramitacao is the number of bills in
\* tramitação whose value for the dimension of the calculation is the
\* record's key.
C31_BillCountMatches ==
  \A m \in Metrics : m.plsTramitacao = MatchingBills(ret.op, m.key)

\* C32: however the calls for one hash interleave, at most one row has the
\* hash, no call fails because another call stored the row first, and a
\* call that returns gives the id of the row with its hash.
C32_OneCitizenPerHash ==
  /\ \A r1, r2 \in cidadaos :
       r1.telefone_hash = r2.telefone_hash => r1 = r2
  /\ \A c \in CallIds :
       /\ citizenCalls[c].pc = "thrown" => citizenCalls[c].cause = "database"
       /\ citizenCalls[c].pc = "returned" =>
            \E row \in cidadaos : /\ row.telefone_hash = citizenCalls[c].telefoneHash
                                  /\ row.id = citizenCalls[c].id

\* -------------------------------------------------------------- narration
\* Texts are kept by their length in characters.
\* 796: 'Aqui esta o resumo dos projetos de lei encontrados. '
IntroLength == 52
\* 804: 'Esses foram os principais projetos de lei. Para mais informacoes,
\* acesse nossa plataforma.'
OutroLength == 90
\* 808: '... Para ver todos os detalhes, consulte o texto enviado
\* anteriormente.'
NoticeLength == 71
\* 807-808: the length the narration is cut at.
AudioTextLimit == 1500

\* Lengths of the citizen summaries the curation stored (730-735).
SummaryLengths == {0, 40, 1324, 1325, 3000}
MaxBatch == 3

\* One stored bill, by the lengths of its texts.
CuratedPL(summary) == [numero |-> 4, ano |-> 4, citizenSummary |-> summary]

Batches ==
  UNION {[1..n -> {CuratedPL(l) : l \in SummaryLengths}] : n \in 1..MaxBatch}

\* The decimal digits of a positive number below 100.
Digits(n) == IF n < 10 THEN 1 ELSE 2

\* 800: `Projeto de Lei ${pl.numero} de ${pl.ano}`
plNumberLength(pl) == 15 + pl.numero + 4 + pl.ano

\* 801: `${index + 1}. ${plNumber}. ${pl.citizenSummary}. `
ItemLength(pl, index) ==
  Digits(index + 1) + 2 + plNumberLength(pl) + 2 + pl.citizenSummary + 2

RECURSIVE ItemsLength(_, _)
ItemsLength(items, n) ==
  IF n = 0 THEN 0
  ELSE ItemsLength(items, n - 1) + ItemLength(items[n], n - 1)

\* 796-804: the narration before the limit is applied.
WholeText(items) == IntroLength + ItemsLength(items, Len(items)) + OutroLength

\* Variant: the narration is passed whole.
audioText_whole(items) == WholeText(items)

\* 796-809: the text given to generateAudio.
audioText(items) ==
  IF WholeText(items) > AudioTextLimit
    THEN AudioTextLimit + NoticeLength
  ELSE WholeText(items)

\* 784-812 with part_002 102-116: the narration of the stored batch is
\* built and handed to speech synthesis, which takes it as it is.
generateAudio(key) ==
  /\ ret = NoRet
  /\ SessionAt(userSessions, heap, key).step = "waiting_curation_audio_choice"
  /\ SessionAt(userSessions, heap, key).curationPLs.defined
  /\ Len(SessionAt(userSessions, heap, key).curationPLs.items) > 0
  /\ ret' = [op |-> "generateAudio", key |-> key,
             input |-> audioText(SessionAt(userSessions, heap, key).curationPLs.items)]
  /\ UNCHANGED <<conversation, service, citizenCalls, cidadaos, interacoes, propostas,
                 projetosLei>>

NarrationInit ==
  /\ \E key \in Keys, batch \in Batches :
       LET r == setSession([k \in Keys |-> 0], [o \in ObjIds |-> NoSession],
                           key, 1,
                           Session("waiting_curation_audio_choice", Undefined,
                                   Undefined, PLs(batch)))
       IN /\ userSessions = r.us
          /\ heap = r.hp
  /\ pc = [t \in Turns |-> "new"]
  /\ msg = [t \in Turns |-> NoMsg]
  /\ text = [t \in Turns |-> Null]
  /\ phoneNumber = [t \in Turns |-> Null]
  /\ session = [t \in Turns |-> 0]
  /\ result = [t \in Turns |-> NoResult]
  /\ sent = [t \in Turns |-> <<>>]
  /\ writes = [t \in Turns |-> <<>>]
  /\ startStep = [t \in Turns |-> Null]
  /\ failed = [t \in Turns |-> {}]
  /\ citizenCalls = [c \in CallIds |-> NoCall]
  /\ whatsappService = ServiceUp
  /\ transport = Quiet
  /\ cidadaos = {}
  /\ interacoes = {}
  /\ propostas = EmptyBag
  /\ projetosLei = EmptyBag
  /\ ret = NoRet

NarrationNext == \E key \in Keys : generateAudio(key)

NarrationSpec == NarrationInit /\ [][NarrationNext]_vars

\* The batch whose narration was handed to speech synthesis.
Narrated == SessionAt(userSessions, heap, ret.key).curationPLs.items

\* C33 (as stated): the narration handed to speech synthesis is never
\* longer than the limit of 1500 characters.
C33_WithinBudget ==
  ret.op = "generateAudio" => ret.input <= AudioTextLimit

\* C33 (amended): the narration handed to speech synthesis is never longer
\* than the 1500 characters kept plus the 71 characters of the closing
\* notice, and a narration of at most 1500 characters is handed over whole.
C33_NarrationBounded ==
  ret.op = "generateAudio" =>
    /\ ret.input <= AudioTextLimit + NoticeLength
    /\ WholeText(Narrated) <= AudioTextLimit => ret.input = WholeText(Narrated)
    /\ WholeText(Narrated) > AudioTextLimit => ret.input > AudioTextLimit

\* C33 witness: a batch too long for the limit was narrated.
C33_Witness ==
  /\ ret.op = "generateAudio"
  /\ WholeText(Narrated) > AudioTextLimit + NoticeLength

\* ------------------------------------------------------------- connection
\* part_004 42: private maxReconnectAttempts = 5
maxReconnectAttempts == 5

\* The successful opens followed in one run.
MaxOpens == 3

\* DisconnectReason.loggedOut and another reason a connection closes for.
loggedOut == 401
StatusCodes == {loggedOut, 428}

\* A connection.update of the socket: connection, the status code of
\* lastDisconnect and whether a QR code came with it.
Update(connection, statusCode, qr) ==
  [connection |-> connection, statusCode |-> statusCode, qr |-> qr]

\* The updates a socket sends: while it connects a QR code, 'connecting',
\* 'open' or 'close'; once open only 'close'.  A closed socket is silent.
Updates(sock) ==
  IF sock = "connecting"
    THEN {Update(Undefined, 0, TRUE), Update("connecting", 0, FALSE),
          Update("open", 0, FALSE)}
         \cup {Update("close", code, FALSE) : code \in StatusCodes}
  ELSE IF sock = "open"
    THEN {Update("close", code, FALSE) : code \in StatusCodes}
  ELSE {}

\* part_014 234-237: the listener of 'connected' pushes one more handler
\* (part_004 198-200).
onConnected(messageHandlers) == messageHandlers + 1

\* Variant: a reconnect is scheduled whatever the count.
mayReconnect_always(shouldReconnect, reconnectAttempts) == shouldReconnect

\* part_004 143: the condition a reconnect is scheduled under.
mayReconnect(shouldReconnect, reconnectAttempts) ==
  shouldReconnect /\ reconnectAttempts < maxReconnectAttempts


\* part_004 47-78: start() makes a new socket and listens to it; it throws
\* when the version or the credentials cannot be loaded, and this.sock is
\* then the socket it was.
start(ok) ==
  IF ok THEN [whatsappService EXCEPT !.sock = "connecting"]
  ELSE whatsappService

\* part_013 245: the server starts the service once.
server_start(ok) ==
  /\ whatsappService = ServiceNew
  /\ transport.timers = 0
  /\ transport.handled = -1
  /\ transport.emitted = <<>>
  /\ whatsappService' = start(ok)
  /\ transport' = [transport EXCEPT !.emitted = <<"start">>]
  /\ UNCHANGED <<conversation, citizenCalls, cidadaos, interacoes, propostas,
                 projetosLei, ret>>

\* part_004 146: setTimeout(() => this.start(), 3000) fires.
reconnect_start(ok) ==
  /\ transport.timers > 0
  /\ whatsappService' = start(ok)
  /\ transport' = [transport EXCEPT !.timers = @ - 1, !.emitted = <<"start">>]
  /\ UNCHANGED <<conversation, citizenCalls, cidadaos, interacoes, propostas,
                 projetosLei, ret>>

\* part_004 118-163: handleConnectionUpdate.
handleConnectionUpdate(update) ==
  /\ update \in Updates(whatsappService.sock)
  /\ update.connection = "open" => transport.opens < MaxOpens
  /\ LET open == update.connection = "open"
         close == update.connection = "close"
         shouldReconnect == update.statusCode # loggedOut
         again == close /\ mayReconnect(shouldReconnect,
                                        whatsappService.reconnectAttempts)
         emitted ==
           (IF update.qr THEN <<"qr">> ELSE <<>>)
           \o (IF open THEN <<"connected">> ELSE <<>>)
           \o (IF close /\ ~again
                 THEN IF whatsappService.reconnectAttempts >= maxReconnectAttempts
                        THEN <<"max-reconnect-attempts">>
                      ELSE <<"disconnected">>
               ELSE <<>>)
           \o (IF update.connection = "connecting"
                 THEN <<"connecting">> ELSE <<>>)
     IN /\ whatsappService' =
             Service(IF open THEN "open" ELSE IF close THEN "closed"
                       ELSE whatsappService.sock,
                     IF open THEN TRUE ELSE IF close THEN FALSE
                       ELSE whatsappService.isConnected,
                     IF open THEN 0
                       ELSE IF again THEN whatsappService.reconnectAttempts + 1
                       ELSE whatsappService.reconnectAttempts,
                     IF open THEN onConnected(whatsappService.messageHandlers)
                       ELSE whatsappService.messageHandlers)
        /\ transport' =
             Wire(IF again THEN transport.timers + 1 ELSE transport.timers,
                  emitted,
                  IF open THEN transport.opens + 1 ELSE transport.opens,
                  IF open THEN 0
                    ELSE IF again THEN transport.scheduled + 1
                    ELSE transport.scheduled,
                  transport.handled)
  /\ UNCHANGED <<conversation, citizenCalls, cidadaos, interacoes, propostas,
                 projetosLei, ret>>

\* part_004 168-193: the open socket delivers one inbound message (not from
\* the bot, with content); every registered handler is called with it.
messages_upsert ==
  /\ whatsappService.sock = "open"
  /\ whatsappService' = whatsappService
  /\ transport' = [transport EXCEPT !.emitted = <<"messages.upsert">>,
                                    !.handled = whatsappService.messageHandlers]
  /\ UNCHANGED <<conversation, citizenCalls, cidadaos, interacoes, propostas,
                 projetosLei, ret>>

ConnectionInit ==
  /\ userSessions = [k \in Keys |-> 0]
  /\ heap = [o \in ObjIds |-> NoSession]
  /\ pc = [t \in Turns |-> "new"]
  /\ msg = [t \in Turns |-> NoMsg]
  /\ text = [t \in Turns |-> Null]
  /\ phoneNumber = [t \in Turns |-> Null]
  /\ session = [t \in Turns |-> 0]
  /\ result = [t \in Turns |-> NoResult]
  /\ sent = [t \in Turns |-> <<>>]
  /\ writes = [t \in Turns |-> <<>>]
  /\ startStep = [t \in Turns |-> Null]
  /\ failed = [t \in Turns |-> {}]
  /\ citizenCalls = [c \in CallIds |-> NoCall]
  /\ whatsappService = ServiceNew
  /\ transport = Wire(0, <<>>, 0, 0, -1)
  /\ cidadaos = {}
  /\ interacoes = {}
  /\ propostas = EmptyBag
  /\ projetosLei = EmptyBag
  /\ ret = NoRet

ConnectionNext ==
  \/ \E ok \in BOOLEAN : server_start(ok)
  \/ \E ok \in BOOLEAN : reconnect_start(ok)
  \/ \E update \in Updates(whatsappService.sock) : handleConnectionUpdate(update)
  \/ messages_upsert

ConnectionSpec == ConnectionInit /\ [][ConnectionNext]_vars

\* C34: at most one controller message handler is ever registered with the
\* transport service, and a delivered inbound message is handled by the
\* controller exactly once, after any number of opens, closes and reconnects.
C34_HandledOnce ==
  /\ whatsappService.messageHandlers <= 1
  /\ transport.handled \in {-1, 1}

\* A connection update closed the socket.
Closes ==
  /\ whatsappService.sock \in {"connecting", "open"}
  /\ whatsappService'.sock = "closed"

\* C39: the count of reconnect attempts stays within 0..5, and so does the
\* number of reconnects scheduled since the last successful open; a
\* successful open leaves the count at 0; a close at the limit schedules no
\* reconnect and emits 'max-reconnect-attempts'; a close that schedules a
\* reconnect happens below the limit and counts it.
C39_ReconnectsBounded ==
  /\ [](/\ whatsappService.reconnectAttempts \in 0..maxReconnectAttempts
        /\ transport.scheduled \in 0..maxReconnectAttempts
        /\ transport.timers \in 0..1)
  /\ [][/\ transport'.opens = transport.opens + 1 =>
             /\ whatsappService'.reconnectAttempts = 0
             /\ transport'.scheduled = 0
        /\ (Closes /\ whatsappService.reconnectAttempts = maxReconnectAttempts) =>
             /\ transport'.timers = transport.timers
             /\ transport'.scheduled = transport.scheduled
             /\ whatsappService'.reconnectAttempts = maxReconnectAttempts
             /\ transport'.emitted = <<"max-reconnect-attempts">>
        /\ (Closes /\ transport'.timers = transport.timers + 1) =>
             /\ whatsappService.reconnectAttempts < maxReconnectAttempts
             /\ whatsappService'.reconnectAttempts =
                  whatsappService.reconnectAttempts + 1]_vars

\* C39 witness: after an open and five scheduled reconnects the limit was
\* reached and a further close emitted 'max-reconnect-attempts'.
C39_Witness ==
  /\ transport.opens > 0
  /\ whatsappService.reconnectAttempts = maxReconnectAttempts
  /\ transport.scheduled = maxReconnectAttempts
  /\ transport.timers = 0
  /\ transport.emitted = <<"max-reconnect-attempts">>

\* C35: when a turn in which a send threw has ended, every step the turn
\* stored is the step the session had when the turn began: no new step is
\* recorded whose summary or prompt was not delivered.
C35_SendFailureKeepsStep ==
  (pc[Observed] = "done" /\ "send" \in failed[Observed]) =>
    \A i \in 1..Len(writes[Observed]) :
      writes[Observed][i].step = startStep[Observed]

\* C36: a turn whose text met step waiting_opinion and contains "contra"
\* never sends the confirmation of an opinion in favour, and no turn sends
\* both confirmations.
C36_ContraNeverFavor ==
  /\ (startStep[Observed] = "waiting_opinion"
        /\ Includes(Lower(text[Observed]), "contra")) =>
       ~HasSent(Observed, {M("confirm_favor")})
  /\ ~(HasSent(Observed, {M("confirm_favor")})
         /\ HasSent(Observed, {M("confirm_contra")}))

\* C37: when a turn ends and the session stored under its key has step
\* idle, that session holds no plSummary, no plNumber and no curationPLs.
C37_IdleHoldsNothing ==
  [][(Ends /\ phoneNumber[Observed] \in Keys
           /\ SessionAt(userSessions', heap', phoneNumber[Observed]).step = "idle") =>
       LET s == SessionAt(userSessions', heap', phoneNumber[Observed])
       IN /\ s.plSummary = Undefined
          /\ s.plNumber = Undefined
          /\ ~s.curationPLs.defined]_vars

\* The band of a reported percentage (in hundredths).
Band(percentualLacuna) ==
  IF percentualLacuna >= 7000 THEN "Alta Lacuna"
  ELSE IF percentualLacuna >= 4000 THEN "Média Lacuna"
  ELSE "Baixa Lacuna"

\* C38: in every record the classification is the band of the
\* percentualLacuna reported in that record: 70.00 or more is Alta Lacuna,
\* 40.00 or more and less than 70.00 is Média Lacuna.
C38_LabelMatchesReported ==
  \A m \in Metrics : m.classificacao = Band(m.percentualLacuna)
====
